---- MODULE Spec2Model ----
(***************************************************************************)
(* Job orchestration of the screening API (api/routes/screening_v2.py):    *)
(* the client-ID allocator, the job store, and run_scanner_job with the    *)
(* worker threads it starts.                                               *)
(***************************************************************************)
EXTENDS Integers, Sequences, FiniteSets, TLC

\* ------------------------------------------------------------------ bounds
NumThreads == 2
NumJobs == 2
MaxLen == 3
NumRuns == 3
NumPoolJobs == 6

\* ------------------------------------------------------- program constants
MinClientId == 10
MaxClientId == 90
MinEnrichClientId == 100
MaxEnrichClientId == 199
MaxWorkers == 5
TopN == 5
DefaultClientId == 5

Threads == 1..NumThreads
JobIds == 1..NumJobs
Runs == 1..NumRuns
PoolJobs == 1..NumPoolJobs

VARIABLES
    next_client_id,         \* _next_client_id
    next_enrich_client_id,  \* _next_enrich_client_id
    counter_lock,           \* _client_id_counter: 0 = free, else the holding thread
    tpc,                    \* position of each thread inside an allocator call
    client_id,              \* the local client_id of each allocator call
    issued,                 \* values returned by get_next_client_id, newest last
    issued_enrich,          \* values returned by get_next_enrich_client_id
    wconn,                  \* client ID of the connection a pool worker holds, 0 = none
    jobs,                   \* the dict jobs: job_id -> job record
    pc,                     \* position of run_scanner_job(job_id) on the event loop
    cutoff,                 \* now - JOB_TTL_HOURS, on the scale of created_at
    scan_thread,            \* the sync_scan future of each job
    scan_results,           \* what sync_scan returned to run_scanner_job
    p3_thread,              \* the fetch_short_data_sync task of each job
    p3_index,               \* position of fetch_short_data_sync in filtered_stocks
    filtered_stocks,        \* the list filtered_stocks of each run_scanner_job
    tws_warning,            \* the local tws_warning of each run_scanner_job
    conns,                  \* gateway connections open across steps: [job, kind, id]
    env,                    \* what the sentiment and news providers do in this process
    resp,                   \* the HTTP response, if the last step served a request
    overran,                \* TRUE once a job's run has lasted longer than five minutes
    pure,                   \* a direct call of a module-level function: input and result
    screening_status,       \* the module-level dict screening_status of screening_simple
    runs,                   \* each run_simple_screening call: its position and scanner
    pool                    \* many v2 jobs at once: job status and sync_scan task

simpleVars == <<screening_status, runs, pool>>
allocVars == <<next_client_id, next_enrich_client_id, counter_lock, tpc, client_id,
               issued, issued_enrich>>
jobVars == <<jobs, pc, cutoff, scan_thread, scan_results, p3_thread, p3_index,
             filtered_stocks, tws_warning, conns, env, simpleVars, resp, overran, pure>>
vars == <<next_client_id, next_enrich_client_id, counter_lock, tpc, client_id,
          issued, issued_enrich, wconn, jobs, pc, cutoff, scan_thread, scan_results,
          p3_thread, p3_index, filtered_stocks, tws_warning, conns, env, simpleVars, resp,
          overran, pure>>

\* ============================================================== allocator
\* One wrap cycle of each range.
PrimaryWindow == MaxClientId - MinClientId + 1
EnrichWindow == MaxEnrichClientId - MinEnrichClientId + 1

NextAfterNoWrap(c, floor, ceiling) == c + 1

\* counter += 1; if counter > ceiling: counter = floor
NextAfter(c, floor, ceiling) == IF c + 1 > ceiling THEN floor ELSE c + 1

LockIgnored == TRUE

\* `with _client_id_counter:` is entered only while no thread holds the lock
LockFree == counter_lock = 0

\* the last `window` returned values, newest last
Remember(hist, v, window) ==
    LET h == Append(hist, v)
    IN  IF Len(h) > window THEN Tail(h) ELSE h

Idle == [fn |-> "none", step |-> "idle"]

AllocInit ==
    /\ next_client_id = MinClientId
    /\ next_enrich_client_id = MinEnrichClientId
    /\ counter_lock = 0
    /\ tpc = [t \in Threads |-> Idle]
    /\ client_id = [t \in Threads |-> 0]
    /\ issued = <<>>
    /\ issued_enrich = <<>>

\* The providers as one process finds them: Reddit answers with posts and the
\* Alpaca keys are set, or the sentiment client cannot be used (its import or
\* construction raises) and the Alpaca keys are absent.
Environments ==
    { [sentiment |-> "posts", news |-> "articles"],
      [sentiment |-> "raises", news |-> "unconfigured"] }

\* also: the Alpaca keys are set and the news request for the first stock
\* raises (a timeout), while those for the other stocks return articles; and
\* Reddit cannot be reached, so that every search_symbol returns [] and
\* get_sentiment its dict of zeros
JobEnvironments ==
    Environments \cup { [sentiment |-> "posts", news |-> "first_fails"],
                        [sentiment |-> "unreachable", news |-> "articles"] }

NoResp == [op |-> "none"]

\* no direct function call is being looked at
NoCall == [op |-> "none"]

PoolInit == wconn = [w \in Threads |-> 0]

\* screening_status as the module defines it
IdleStatus ==
    [running |-> FALSE, step |-> "Idle", progress |-> 0, message |-> "Ready to scan",
     stocks_found |-> 0]

\* run_simple_screening has not been called; no TWSScannerSync exists
NotCalled == [pc |-> "none", client_id |-> 0, is_connected |-> FALSE]

\* no record of the job in jobs, no sync_scan submitted to the executor
NotStarted == [status |-> "none", task |-> "none"]

SimpleInit ==
    /\ screening_status = IdleStatus
    /\ runs = [r \in Runs |-> NotCalled]
    /\ pool = [j \in PoolJobs |-> NotStarted]

\* the module just loaded: no job, no task, no connection
StoreInit ==
    /\ jobs = <<>>
    /\ pc = [j \in JobIds |-> "fresh"]
    /\ cutoff = 0
    /\ scan_thread = [j \in JobIds |-> "none"]
    /\ scan_results = [j \in JobIds |-> <<>>]
    /\ p3_thread = [j \in JobIds |-> "none"]
    /\ p3_index = [j \in JobIds |-> 0]
    /\ filtered_stocks = [j \in JobIds |-> <<>>]
    /\ tws_warning = [j \in JobIds |-> "None"]
    /\ conns = {}
    /\ resp = NoResp
    /\ overran = [j \in JobIds |-> FALSE]
    /\ SimpleInit

JobInit ==
    /\ StoreInit
    /\ env \in Environments
    /\ pure = NoCall

\* a thread calls one of the two allocators and enters the with-block
Acquire(t, fn) ==
    /\ tpc[t] = Idle
    /\ LockFree
    /\ counter_lock' = t
    /\ tpc' = [tpc EXCEPT ![t] = [fn |-> fn, step |-> "read"]]
    /\ UNCHANGED <<next_client_id, next_enrich_client_id, client_id, issued,
                   issued_enrich, wconn>>
    /\ UNCHANGED jobVars

\* client_id = _next_client_id          (resp. _next_enrich_client_id)
ReadCounter(t) ==
    /\ tpc[t].step = "read"
    /\ client_id' = [client_id EXCEPT ![t] =
            IF tpc[t].fn = "primary" THEN next_client_id ELSE next_enrich_client_id]
    /\ tpc' = [tpc EXCEPT ![t].step = "inc"]
    /\ UNCHANGED <<next_client_id, next_enrich_client_id, counter_lock, issued,
                   issued_enrich, wconn>>
    /\ UNCHANGED jobVars

\* _next_client_id += 1; if _next_client_id > 90: _next_client_id = 10
IncrementAndWrap(t) ==
    /\ tpc[t].step = "inc"
    /\ IF tpc[t].fn = "primary"
       THEN /\ next_client_id' = NextAfter(next_client_id, MinClientId, MaxClientId)
            /\ UNCHANGED next_enrich_client_id
       ELSE /\ next_enrich_client_id' =
                   NextAfter(next_enrich_client_id, MinEnrichClientId, MaxEnrichClientId)
            /\ UNCHANGED next_client_id
    /\ tpc' = [tpc EXCEPT ![t].step = "ret"]
    /\ UNCHANGED <<counter_lock, client_id, issued, issued_enrich, wconn>>
    /\ UNCHANGED jobVars

\* return client_id, leaving the with-block
ReturnId(t) ==
    /\ tpc[t].step = "ret"
    /\ IF tpc[t].fn = "primary"
       THEN /\ issued' = Remember(issued, client_id[t], PrimaryWindow)
            /\ UNCHANGED issued_enrich
       ELSE /\ issued_enrich' = Remember(issued_enrich, client_id[t], EnrichWindow)
            /\ UNCHANGED issued
    /\ counter_lock' = 0
    /\ tpc' = [tpc EXCEPT ![t] = Idle]
    /\ client_id' = [client_id EXCEPT ![t] = 0]
    /\ UNCHANGED <<next_client_id, next_enrich_client_id, wconn>>
    /\ UNCHANGED jobVars

AllocNext ==
    \E t \in Threads :
        \/ Acquire(t, "primary")
        \/ Acquire(t, "enrich")
        \/ ReadCounter(t)
        \/ IncrementAndWrap(t)
        \/ ReturnId(t)

\* the state after the module is loaded
Init == AllocInit /\ PoolInit /\ JobInit

SpecAlloc == Init /\ [][AllocNext]_vars

Values(s) == {s[i] : i \in 1..Len(s)}

\* no value occurs at two positions of s
NoDuplicates(s) == Cardinality(Values(s)) = Len(s)

\* C2: among any 81 consecutive get_next_client_id results, and among any 100
\* consecutive get_next_enrich_client_id results, no value occurs twice,
\* whatever the interleaving of the calling threads.
C2_NoDuplicateInWindow == NoDuplicates(issued) /\ NoDuplicates(issued_enrich)

\* a full wrap cycle of each allocator has been issued
C2_Witness ==
    /\ Len(issued) = PrimaryWindow
    /\ Len(issued_enrich) = EnrichWindow
    /\ issued[1] # MinClientId
    /\ issued_enrich[1] # MinEnrichClientId

\* C3: every primary ID lies in 10..90 and every enrichment ID in 100..199,
\* a counter is back at its floor right after its ceiling was issued, and a
\* primary ID never equals an enrichment ID.
C3_RangesAndWrap ==
    /\ Values(issued) \subseteq MinClientId..MaxClientId
    /\ Values(issued_enrich) \subseteq MinEnrichClientId..MaxEnrichClientId
    /\ (counter_lock = 0 /\ issued # <<>> /\ issued[Len(issued)] = MaxClientId)
            => next_client_id = MinClientId
    /\ (counter_lock = 0 /\ issued_enrich # <<>>
            /\ issued_enrich[Len(issued_enrich)] = MaxEnrichClientId)
            => next_enrich_client_id = MinEnrichClientId
    /\ Values(issued) \cap Values(issued_enrich) = {}

\* both counters have just wrapped
C3_Witness ==
    /\ counter_lock = 0
    /\ issued # <<>> /\ issued[Len(issued)] = MaxClientId
    /\ issued_enrich # <<>> /\ issued_enrich[Len(issued_enrich)] = MaxEnrichClientId
    /\ next_client_id = MinClientId
    /\ next_enrich_client_id = MinEnrichClientId

\* ============================================ pool workers running sync_scan
\* client_id = get_next_client_id(); scanner = TWSScannerSync(client_id);
\* scanner.connect() succeeds: the worker now holds a connection with that ID
SyncScanConnect(w) ==
    /\ wconn[w] = 0
    /\ wconn' = [wconn EXCEPT ![w] = next_client_id]
    /\ next_client_id' = NextAfter(next_client_id, MinClientId, MaxClientId)
    /\ UNCHANGED <<next_enrich_client_id, counter_lock, tpc, client_id, issued,
                   issued_enrich>>
    /\ UNCHANGED jobVars

\* scanner.connect() raises ConnectionError: the ID is consumed, no connection
SyncScanConnectFails(w) ==
    /\ wconn[w] = 0
    /\ next_client_id' = NextAfter(next_client_id, MinClientId, MaxClientId)
    /\ UNCHANGED <<next_enrich_client_id, counter_lock, tpc, client_id, issued,
                   issued_enrich, wconn>>
    /\ UNCHANGED jobVars

\* scanner.scan_most_active(...); scanner.disconnect(); return scan_results
SyncScanReturn(w) ==
    /\ wconn[w] # 0
    /\ wconn' = [wconn EXCEPT ![w] = 0]
    /\ UNCHANGED allocVars
    /\ UNCHANGED jobVars

ConnNext ==
    \E w \in Threads :
        \/ SyncScanConnect(w)
        \/ SyncScanConnectFails(w)
        \/ SyncScanReturn(w)

SpecConn == Init /\ [][ConnNext]_vars

\* C4: two connections that are open at the same moment never use the same
\* client ID, also after the allocator has wrapped.
C4_DistinctOpenClientIds ==
    \A w1, w2 \in Threads :
        (w1 # w2 /\ wconn[w1] # 0 /\ wconn[w2] # 0) => wconn[w1] # wconn[w2]

\* ================================================================ job store
Active == {"queued", "running"}

\* entry appended by log_step (its wall-clock timestamp string is left out)
LogEntry(msg, st) == [message |-> msg, status |-> st]

LogStepReplaces(js, j, msg, st) ==
    IF j \in DOMAIN js
    THEN [js EXCEPT ![j].flow_log = <<LogEntry(msg, st)>>]
    ELSE js

\* log_step(job_id, message, status): under jobs_lock, appends to the job's
\* flow_log if the job is still in the store, does nothing otherwise
LogStep(js, j, msg, st) ==
    IF j \in DOMAIN js
    THEN [js EXCEPT ![j].flow_log = Append(@, LogEntry(msg, st))]
    ELSE js

\* several log_step calls in a row; entries are <<message, status>> pairs
RECURSIVE LogSteps(_, _, _)
LogSteps(js, j, entries) ==
    IF entries = <<>> THEN js
    ELSE LogSteps(LogStep(js, j, entries[1][1], entries[1][2]), j, Tail(entries))

\* Time: the k-th job is created at instant k, and cutoff is the latest such
\* instant that already lies JOB_TTL_HOURS or more in the past, so that
\* created_at > cutoff is the comparison cleanup_old_jobs makes.
NumCreated == Cardinality({j \in JobIds : pc[j] # "fresh"})

KeepsQueuedOnly(job) == job.created_at > cutoff \/ job.status = "queued"

KeepsAtCutoff(job) == job.created_at >= cutoff \/ job.status \in Active

\* the condition of the dict comprehension in cleanup_old_jobs
Keeps(job) == job.created_at > cutoff \/ job.status \in Active

CleanupDropsLog(js) ==
    LET kept == {k \in DOMAIN js : Keeps(js[k])}
    IN  [k \in kept |-> [js[k] EXCEPT !.flow_log = <<>>]]

\* cleanup_old_jobs(): jobs = {id: job for ... if created_at > cutoff or active}
cleanup_old_jobs(js) ==
    LET kept == {k \in DOMAIN js : Keeps(js[k])}
    IN  [k \in kept |-> js[k]]

NewJobStarted(j) ==
    [job_id |-> j, status |-> "running", progress |-> 5,
     message |-> "Job queued, waiting to start...", stocks_found |-> 0,
     created_at |-> NumCreated + 1, completed_at |-> "None", error |-> "None",
     stocks |-> "None", flow_log |-> <<>>, warning |-> "None"]

\* the record start_screening_v2 stores for a new job
NewJob(j) ==
    [job_id |-> j, status |-> "queued", progress |-> 0,
     message |-> "Job queued, waiting to start...", stocks_found |-> 0,
     created_at |-> NumCreated + 1, completed_at |-> "None", error |-> "None",
     stocks |-> "None", flow_log |-> <<>>, warning |-> "None"]

\* ScanJob(**jobs[job_id]): the response model built from a stored record; its
\* stocks field is a copy of the candidate list the record refers to
ScanJob(job) ==
    [job EXCEPT !.stocks = IF @ = "None" THEN "None" ELSE filtered_stocks[job.job_id]]

\* uuid.uuid4(): an identifier no job has had before
FreshJobId == CHOOSE j \in JobIds : pc[j] = "fresh" /\ \A k \in 1..(j - 1) : pc[k] # "fresh"

\* future.result(timeout=60) keeps the event-loop thread inside run_scanner_job:
\* no handler and no other coroutine runs meanwhile
LoopFree == \A j \in JobIds : pc[j] # "p3_wait"

\* POST /screening/v2/run: cleanup_old_jobs(), store the new record, add the
\* background task, return the record
start_screening_v2 ==
    /\ LoopFree
    /\ \E j \in JobIds : pc[j] = "fresh"
    /\ LET j == FreshJobId
           js == cleanup_old_jobs(jobs) @@ (j :> NewJob(j))
       IN  /\ jobs' = js
           /\ pc' = [pc EXCEPT ![j] = "pending"]
           /\ resp' = [op |-> "start", job |-> j, code |-> 200, body |-> ScanJob(js[j])]
    /\ UNCHANGED <<cutoff, scan_thread, scan_results, p3_thread, p3_index,
                   filtered_stocks, tws_warning, conns, env, simpleVars, overran, pure>>
    /\ UNCHANGED allocVars /\ UNCHANGED wconn

StatusHidesFailed(js, j) ==
    IF j \in DOMAIN js /\ js[j].status # "failed"
    THEN [op |-> "status", job |-> j, code |-> 200, body |-> ScanJob(js[j])]
    ELSE [op |-> "status", job |-> j, code |-> 404]

\* get_job_status: 404 if job_id not in jobs, else ScanJob(**jobs[job_id])
StatusResponse(js, j) ==
    IF j \in DOMAIN js
    THEN [op |-> "status", job |-> j, code |-> 200, body |-> ScanJob(js[j])]
    ELSE [op |-> "status", job |-> j, code |-> 404]

\* GET /screening/v2/status/{job_id}
get_job_status(j) ==
    /\ LoopFree
    /\ resp' = StatusResponse(jobs, j)
    /\ UNCHANGED <<jobs, pc, cutoff, scan_thread, scan_results, p3_thread, p3_index,
                   filtered_stocks, tws_warning, conns, env, simpleVars, overran, pure>>
    /\ UNCHANGED allocVars /\ UNCHANGED wconn

ClearKeepsFailed ==
    /\ LoopFree
    /\ LET kept == {k \in DOMAIN jobs : jobs[k].status \in Active \cup {"failed"}}
       IN  /\ jobs' = [k \in kept |-> jobs[k]]
           /\ resp' = [op |-> "clear", code |-> 200,
                       cleared |-> Cardinality(DOMAIN jobs) - Cardinality(kept),
                       remaining_jobs |-> Cardinality(kept)]
    /\ UNCHANGED <<pc, cutoff, scan_thread, scan_results, p3_thread, p3_index,
                   filtered_stocks, tws_warning, conns, env, simpleVars, overran, pure>>
    /\ UNCHANGED allocVars /\ UNCHANGED wconn

\* DELETE /screening/v2/jobs
clear_jobs ==
    /\ LoopFree
    /\ LET kept == {k \in DOMAIN jobs : jobs[k].status \in Active}
       IN  /\ jobs' = [k \in kept |-> jobs[k]]
           /\ resp' = [op |-> "clear", code |-> 200,
                       cleared |-> Cardinality(DOMAIN jobs) - Cardinality(kept),
                       remaining_jobs |-> Cardinality(kept)]
    /\ UNCHANGED <<pc, cutoff, scan_thread, scan_results, p3_thread, p3_index,
                   filtered_stocks, tws_warning, conns, env, simpleVars, overran, pure>>
    /\ UNCHANGED allocVars /\ UNCHANGED wconn

\* wall-clock time passes: the oldest job still inside the retention window
\* becomes JOB_TTL_HOURS old
TimePasses ==
    /\ cutoff < NumCreated
    /\ cutoff' = cutoff + 1
    /\ resp' = NoResp
    /\ UNCHANGED <<jobs, pc, scan_thread, scan_results, p3_thread, p3_index,
                   filtered_stocks, tws_warning, conns, env, simpleVars, overran, pure>>
    /\ UNCHANGED allocVars /\ UNCHANGED wconn

\* ===================================================== scan and candidates
Abs(x) == IF x < 0 THEN -x ELSE x
Min(a, b) == IF a < b THEN a ELSE b
Max(a, b) == IF a > b THEN a ELSE b

\* What the gateway answers to one scan: the scanner rows in rank order, each
\* with the answer to its historical-bars request (two daily closes and the
\* last volume, or no bars / a timeout).  Prices are in cents.
NoBars == [ok |-> FALSE, last_close |-> 0, prev_close |-> 0, volume |-> 0]
Bars(last, prev, vol) == [ok |-> TRUE, last_close |-> last, prev_close |-> prev, volume |-> vol]
RowA == [symbol |-> "A", rank |-> 0, bars |-> Bars(1150, 1000, 2500000)]
RowB == [symbol |-> "B", rank |-> 1, bars |-> Bars(1060, 1000, 3000000)]
RowZ == [symbol |-> "Z", rank |-> 0, bars |-> NoBars]
ScanAnswers == { <<>>, <<RowA, RowB>>, <<RowB>>, <<RowZ>> }

\* further answers: a third row with a smaller gap and a larger volume, and a
\* row whose bars request fails while another row's succeeds
RowC == [symbol |-> "C", rank |-> 2, bars |-> Bars(1120, 1000, 5000000)]
RowY == [symbol |-> "Y", rank |-> 1, bars |-> NoBars]
JobScanAnswers == ScanAnswers \cup { <<RowA, RowB, RowC>>, <<RowA, RowY>> }

\* one result dict of TWSScannerSync.scan_most_active
ScanResult(row) ==
    LET b == row.bars
        gap == IF b.ok /\ b.prev_close > 0
               THEN ((b.last_close - b.prev_close) * 100) \div b.prev_close
               ELSE 0
    IN  [symbol |-> row.symbol, rank |-> row.rank,
         last_price |-> IF b.ok THEN b.last_close ELSE 0,
         previous_close |-> IF b.ok THEN b.prev_close ELSE 0,
         volume |-> IF b.ok THEN b.volume ELSE 0,
         gap_percent |-> gap]

scan_most_active(answer) == [i \in 1..Len(answer) |-> ScanResult(answer[i])]

\* an Optional[int] field of a stock: None, or a number
Absent == <<>>
Some(x) == <<x>>

\* dict.get(key, default) on a key that may be missing
Get(field, default) == IF field = Absent THEN default ELSE field[1]

\* int(num / den) for den > 0: Python's int() drops the fraction towards zero
Trunc(num, den) == IF num >= 0 THEN num \div den ELSE -((-num) \div den)

\* total_score of Phase 2; gaps are whole per cent here, vol_score is kept in
\* millionths of a point until the int()
InlineScore(rank, gap, volume) ==
    LET rank_score == Max(0, 40 - rank * 2)
        gap_score == Min(30, Abs(gap) * 3)
        vol_score == Min(30 * 1000000, volume * 10)
    IN  Trunc((rank_score + gap_score) * 1000000 + vol_score, 1000000)

\* the dict run_scanner_job appends to enriched_stocks (Phase 2)
Enriched(stock) ==
    LET gap == stock.gap_percent
    IN  [symbol |-> stock.symbol, rank |-> stock.rank,
         gap_percent |-> gap,
         gap_direction |-> IF gap >= 0 THEN "up" ELSE "down",
         pre_market_price |-> stock.last_price,
         previous_close |-> stock.previous_close,
         pre_market_volume |-> stock.volume,
         momentum_score |-> Abs(gap) * 10,
         score |-> InlineScore(stock.rank, gap, stock.volume),
         shortable_shares |-> Absent, reddit_mentions |-> Absent,
         reddit_sentiment |-> Absent, reddit_sentiment_label |-> "None", news |-> "None", catalyst |-> "None"]

ETF_SYMBOLS ==
    {"SOXS", "SOXL", "TQQQ", "SQQQ", "SPXU", "SPXL", "UPRO", "TNA", "TZA", "LABU",
     "LABD", "NUGT", "DUST", "UVXY", "SVXY", "VXX", "ZSL", "AGQ", "UCO", "SCO",
     "SPY", "QQQ", "IWM", "DIA", "GLD", "SLV", "ARKK", "ARKG", "TMF", "TMV",
     "TECL", "TECS"}

\* the query parameters of start_screening_v2 left at their defaults
DefaultParams ==
    [min_gap_percent |-> 10, max_gap_percent |-> 100, gap_direction |-> "up",
     max_volume |-> 0, exclude_etfs |-> FALSE]

PassesIgnoringVolume(stock, p) ==
    /\ ~(p.exclude_etfs /\ stock.symbol \in ETF_SYMBOLS)
    /\ ~(p.gap_direction = "up" /\ stock.gap_direction # "up")
    /\ ~(p.gap_direction = "down" /\ stock.gap_direction # "down")
    /\ ~(Abs(stock.gap_percent) < p.min_gap_percent)
    /\ ~(p.max_gap_percent > 0 /\ Abs(stock.gap_percent) > p.max_gap_percent)

PassesVolumeFloor(stock, p) ==
    /\ ~(p.exclude_etfs /\ stock.symbol \in ETF_SYMBOLS)
    /\ ~(p.gap_direction = "up" /\ stock.gap_direction # "up")
    /\ ~(p.gap_direction = "down" /\ stock.gap_direction # "down")
    /\ ~(Abs(stock.gap_percent) < p.min_gap_percent)
    /\ ~(p.max_gap_percent > 0 /\ Abs(stock.gap_percent) > p.max_gap_percent)
    /\ ~(p.max_volume > 0 /\ stock.pre_market_volume < p.max_volume)

\* the body of the loop of apply_supernova_filters: TRUE when stock is appended.
\* Symbols arrive from the gateway in upper case, where symbol.upper() changes
\* nothing.
PassesFilters(stock, p) ==
    /\ ~(p.exclude_etfs /\ stock.symbol \in ETF_SYMBOLS)
    /\ ~(p.gap_direction = "up" /\ stock.gap_direction # "up")
    /\ ~(p.gap_direction = "down" /\ stock.gap_direction # "down")
    /\ ~(Abs(stock.gap_percent) < p.min_gap_percent)
    /\ ~(p.max_gap_percent > 0 /\ Abs(stock.gap_percent) > p.max_gap_percent)
    /\ ~(p.max_volume > 0 /\ stock.pre_market_volume > p.max_volume)

apply_supernova_filters(stocks, p) == SelectSeq(stocks, LAMBDA st : PassesFilters(st, p))

RerankFromZero(stocks) == [i \in 1..Len(stocks) |-> [stocks[i] EXCEPT !.rank = i - 1]]

\* for i, stock in enumerate(filtered_stocks, 1): stock['rank'] = i
Rerank(stocks) == [i \in 1..Len(stocks) |-> [stocks[i] EXCEPT !.rank = i]]

\* a sequence of n copies of e
Repeat(e, n) == [i \in 1..n |-> e]

AnyNoData(stocks) ==
    \E i \in 1..Len(stocks) : stocks[i].pre_market_price = 0

\* stocks_with_no_data == len(enriched_stocks) and len(enriched_stocks) > 0
AllNoData(stocks) ==
    /\ Len(stocks) > 0
    /\ \A i \in 1..Len(stocks) : stocks[i].pre_market_price = 0

\* ========================================================= run_scanner_job
\* tasks that occupy a worker of executor = ThreadPoolExecutor(max_workers=5)
\* across steps (sync_scan runs within one step)
RunningTasks == Cardinality({j \in JobIds : p3_thread[j] = "running"})

\* Phase 1 up to `await loop.run_in_executor(executor, sync_scan)`:
\* status running, progress 5 then 10, two log entries, the scan is submitted
BeginJob(j) ==
    /\ LoopFree
    /\ pc[j] = "pending"
    /\ j \in DOMAIN jobs
    /\ jobs' = LogSteps([jobs EXCEPT ![j].status = "running", ![j].progress = 10], j,
                        << <<"Connecting to TWS Desktop...", "running">>,
                           <<"Running TOP_PERC_GAIN scanner (gappers)...", "running">> >>)
    /\ scan_thread' = [scan_thread EXCEPT ![j] = "queued"]
    /\ pc' = [pc EXCEPT ![j] = "await_scan"]
    /\ resp' = NoResp
    /\ UNCHANGED <<cutoff, scan_results, p3_thread, p3_index, filtered_stocks,
                   tws_warning, conns, env, simpleVars, overran, pure>>
    /\ UNCHANGED allocVars /\ UNCHANGED wconn

\* sync_scan on a pool worker: get_next_client_id(), scanner.connect(),
\* scan_most_active(...), scanner.disconnect(), return scan_results
SyncScanAnswers(j, answers) ==
    /\ scan_thread[j] = "queued"
    /\ RunningTasks < MaxWorkers
    /\ next_client_id' = NextAfter(next_client_id, MinClientId, MaxClientId)
    /\ \E answer \in answers :
            scan_results' = [scan_results EXCEPT ![j] = scan_most_active(answer)]
    /\ scan_thread' = [scan_thread EXCEPT ![j] = "returned"]
    /\ resp' = NoResp
    /\ UNCHANGED <<jobs, pc, cutoff, p3_thread, p3_index, filtered_stocks,
                   tws_warning, conns, env, simpleVars, overran, pure>>
    /\ UNCHANGED <<next_enrich_client_id, counter_lock, tpc, client_id, issued,
                   issued_enrich, wconn>>

SyncScanReturns(j) == SyncScanAnswers(j, ScanAnswers)

\* sync_scan: scanner.connect() raises ConnectionError, which leaves sync_scan
SyncScanRaises(j) ==
    /\ scan_thread[j] = "queued"
    /\ RunningTasks < MaxWorkers
    /\ next_client_id' = NextAfter(next_client_id, MinClientId, MaxClientId)
    /\ scan_thread' = [scan_thread EXCEPT ![j] = "raised"]
    /\ resp' = NoResp
    /\ UNCHANGED <<jobs, pc, cutoff, scan_results, p3_thread, p3_index,
                   filtered_stocks, tws_warning, conns, env, simpleVars, overran, pure>>
    /\ UNCHANGED <<next_enrich_client_id, counter_lock, tpc, client_id, issued,
                   issued_enrich, wconn>>

FailedStillRunning(js, j) ==
    [LogStep(js, j, "Error", "error") EXCEPT
        ![j].progress = 0,
        ![j].message = "Error",
        ![j].error = "traceback",
        ![j].completed_at = "now"]

FailedKeepsProgress(js, j) ==
    [LogStep(js, j, "Error", "error") EXCEPT
        ![j].status = "failed",
        ![j].message = "Error",
        ![j].error = "traceback",
        ![j].completed_at = "now"]

\* the `except Exception` handler of run_scanner_job
Failed(js, j) ==
    [LogStep(js, j, "Error", "error") EXCEPT
        ![j].status = "failed",
        ![j].progress = 0,
        ![j].message = "Error",
        ![j].error = "traceback",
        ![j].completed_at = "now"]

ScanRaisedHangs(j) ==
    /\ LoopFree
    /\ pc[j] = "await_scan"
    /\ scan_thread[j] = "raised"
    /\ j \in DOMAIN jobs
    /\ jobs' = LogStep(jobs, j, "Error", "error")
    /\ pc' = [pc EXCEPT ![j] = "hung"]
    /\ resp' = NoResp
    /\ UNCHANGED <<cutoff, scan_thread, scan_results, p3_thread, p3_index,
                   filtered_stocks, tws_warning, conns, env, simpleVars, overran, pure>>
    /\ UNCHANGED allocVars /\ UNCHANGED wconn

\* the await raised what sync_scan raised: the handler records the failure
ScanRaised(j) ==
    /\ LoopFree
    /\ pc[j] = "await_scan"
    /\ scan_thread[j] = "raised"
    /\ j \in DOMAIN jobs
    /\ jobs' = Failed(jobs, j)
    /\ pc' = [pc EXCEPT ![j] = "done"]
    /\ resp' = NoResp
    /\ UNCHANGED <<cutoff, scan_thread, scan_results, p3_thread, p3_index,
                   filtered_stocks, tws_warning, conns, env, simpleVars, overran, pure>>
    /\ UNCHANGED allocVars /\ UNCHANGED wconn

NeverEmpty(results) == FALSE

\* `if not scan_results:`
NoResults(results) == results = <<>>

\* the scan found nothing: the job completes with no stocks and returns
ScanEmpty(j) ==
    /\ LoopFree
    /\ pc[j] = "await_scan"
    /\ scan_thread[j] = "returned"
    /\ NoResults(scan_results[j])
    /\ j \in DOMAIN jobs
    /\ jobs' = [LogStep(jobs, j, "No stocks found matching criteria", "error") EXCEPT
                    ![j].status = "completed",
                    ![j].progress = 100,
                    ![j].message = "No stocks found matching criteria",
                    ![j].stocks_found = 0,
                    ![j].completed_at = "now"]
    /\ pc' = [pc EXCEPT ![j] = "done"]
    /\ resp' = NoResp
    /\ UNCHANGED <<cutoff, scan_thread, scan_results, p3_thread, p3_index,
                   filtered_stocks, tws_warning, conns, env, simpleVars, overran, pure>>
    /\ UNCHANGED allocVars /\ UNCHANGED wconn

CompletedCountsScan(js, j, n, warning) ==
    LogStep([js EXCEPT
                ![j].status = "completed",
                ![j].progress = 100,
                ![j].message = "Successfully found stocks",
                ![j].stocks_found = Len(scan_results[j]),
                ![j].stocks = "filtered_stocks",
                ![j].completed_at = "now",
                ![j].warning = IF warning # "None" THEN warning ELSE @],
            j, "Complete! stocks match supernova criteria", "success")

\* the `=== COMPLETE ===` block; stocks refers to the list filtered_stocks
Completed(js, j, n, warning) ==
    LogStep([js EXCEPT
                ![j].status = "completed",
                ![j].progress = 100,
                ![j].message = "Successfully found stocks",
                ![j].stocks_found = n,
                ![j].stocks = "filtered_stocks",
                ![j].completed_at = "now",
                ![j].warning = IF warning # "None" THEN warning ELSE @],
            j, "Complete! stocks match supernova criteria", "success")

\* the log_step calls of Phase 2 and Phase 2.5
Phase2Log(enriched, survivors) ==
    << <<"Found stocks", "success">>,
       <<"Processing enriched scan results...", "running">> >>
    \o Repeat(<<"stock: price | gap | vol", "success">>, Len(enriched))
    \o << <<"Enrichment complete", "success">> >>
    \o (IF AllNoData(enriched)
        THEN << <<"WARNING: TWS may need restart - no enrichment data", "error">> >>
        ELSE <<>>)
    \o << <<"Applying filters", "running">> >>
    \o (IF Len(enriched) > Len(survivors)
        THEN << <<"Filtered stocks (gap/direction)", "success">> >>
        ELSE << <<"All stocks passed filters", "success">> >>)

AlwaysPhase3(stocks) == Len(stocks) >= 0

\* `if len(filtered_stocks) > 0:` before Phases 3, 4 and 5
HasSurvivors(stocks) == Len(stocks) > 0

\* Phases 2 and 2.5 after a non-empty scan, then either Phase 3 is submitted to
\* the pool and awaited with future.result(timeout=60), or, with no survivor,
\* Phases 3 to 5 are skipped and the job completes
ScanFound(j) ==
    /\ LoopFree
    /\ pc[j] = "await_scan"
    /\ scan_thread[j] = "returned"
    /\ ~NoResults(scan_results[j])
    /\ j \in DOMAIN jobs
    /\ LET enriched == [i \in 1..Len(scan_results[j]) |-> Enriched(scan_results[j][i])]
           warning == IF AllNoData(enriched) THEN "All historical data requests failed"
                      ELSE "None"
           survivors == Rerank(apply_supernova_filters(enriched, DefaultParams))
           js == LogSteps([jobs EXCEPT ![j].progress = 30,
                                       ![j].message = "Found stocks, enriching data..."],
                          j, Phase2Log(enriched, survivors))
       IN  /\ filtered_stocks' = [filtered_stocks EXCEPT ![j] = survivors]
           /\ IF HasSurvivors(survivors)
              THEN /\ jobs' = [LogStep(js, j, "Phase 3: Getting short data", "running")
                                 EXCEPT ![j].progress = 70,
                                        ![j].message = "Getting short data"]
                   /\ p3_thread' = [p3_thread EXCEPT ![j] = "queued"]
                   /\ tws_warning' = [tws_warning EXCEPT ![j] = warning]
                   /\ pc' = [pc EXCEPT ![j] = "p3_wait"]
              ELSE /\ jobs' = Completed(js, j, Len(survivors), warning)
                   /\ pc' = [pc EXCEPT ![j] = "done"]
                   /\ UNCHANGED <<p3_thread, tws_warning>>
    /\ resp' = NoResp
    /\ UNCHANGED <<cutoff, scan_thread, scan_results, p3_index, conns, env, simpleVars,
                   overran, pure>>
    /\ UNCHANGED allocVars /\ UNCHANGED wconn

\* ------------------------------------------- Phase 3: fetch_short_data_sync
\* on a pool worker: get_next_enrich_client_id(), ib_short.connect(...) succeeds
P3Connect(j) ==
    /\ p3_thread[j] = "queued"
    /\ RunningTasks < MaxWorkers
    /\ conns' = conns \cup {[job |-> j, kind |-> "enrich", id |-> next_enrich_client_id]}
    /\ next_enrich_client_id' =
            NextAfter(next_enrich_client_id, MinEnrichClientId, MaxEnrichClientId)
    /\ p3_thread' = [p3_thread EXCEPT ![j] = "running"]
    /\ p3_index' = [p3_index EXCEPT ![j] = 1]
    /\ resp' = NoResp
    /\ UNCHANGED <<jobs, pc, cutoff, scan_thread, scan_results, filtered_stocks,
                   tws_warning, env, simpleVars, overran, pure>>
    /\ UNCHANGED <<next_client_id, counter_lock, tpc, client_id, issued,
                   issued_enrich, wconn>>

ConnectionErrorFailsJob(js, j) ==
    IF j \in DOMAIN js THEN Failed(js, j) ELSE js

\* except Exception as e: log_step(job_id, "Phase 3 connection error: ...", "error")
ConnectionErrorLogged(js, j) == LogStep(js, j, "Phase 3 connection error", "error")

\* ib_short.connect raises: the error is logged and the task ends
P3ConnectFails(j) ==
    /\ p3_thread[j] = "queued"
    /\ RunningTasks < MaxWorkers
    /\ next_enrich_client_id' =
            NextAfter(next_enrich_client_id, MinEnrichClientId, MaxEnrichClientId)
    /\ jobs' = ConnectionErrorLogged(jobs, j)
    /\ p3_thread' = [p3_thread EXCEPT ![j] = "done"]
    /\ resp' = NoResp
    /\ UNCHANGED <<pc, cutoff, scan_thread, scan_results, p3_index, filtered_stocks,
                   tws_warning, conns, env, simpleVars, overran, pure>>
    /\ UNCHANGED <<next_client_id, counter_lock, tpc, client_id, issued,
                   issued_enrich, wconn>>

StockErrorFailsJob(js, j) ==
    IF j \in DOMAIN js THEN Failed(js, j) ELSE js

\* except Exception as e: log_step(job_id, f"  {stock['symbol']}: ...", "error")
StockErrorLogged(js, j) == LogStep(js, j, "stock: exception", "error")

\* one iteration of `for stock in filtered_stocks`: the short data arrives and is
\* written into the stock dict, or a request raises and the error is logged
P3Stock(j) ==
    /\ p3_thread[j] = "running"
    /\ p3_index[j] <= Len(filtered_stocks[j])
    /\ \/ /\ filtered_stocks' = [filtered_stocks EXCEPT
                                    ![j][p3_index[j]].shortable_shares = Some(500000)]
          /\ jobs' = LogSteps(jobs, j, << <<"ticker data", "info">>,
                                          <<"stock: Borrow, Shortable", "success">> >>)
       \/ /\ jobs' = StockErrorLogged(jobs, j)
          /\ UNCHANGED filtered_stocks
    /\ p3_index' = [p3_index EXCEPT ![j] = @ + 1]
    /\ resp' = NoResp
    /\ UNCHANGED <<pc, cutoff, scan_thread, scan_results, p3_thread, tws_warning,
                   conns, env, simpleVars, overran, pure>>
    /\ UNCHANGED allocVars /\ UNCHANGED wconn

\* after the loop: ib_short.disconnect(), "Phase 3 enrichment complete"
P3Finish(j) ==
    /\ p3_thread[j] = "running"
    /\ p3_index[j] > Len(filtered_stocks[j])
    /\ conns' = {c \in conns : ~(c.job = j /\ c.kind = "enrich")}
    /\ jobs' = LogStep(jobs, j, "Phase 3 enrichment complete", "success")
    /\ p3_thread' = [p3_thread EXCEPT ![j] = "done"]
    /\ resp' = NoResp
    /\ UNCHANGED <<pc, cutoff, scan_thread, scan_results, p3_index, filtered_stocks,
                   tws_warning, env, simpleVars, overran, pure>>
    /\ UNCHANGED allocVars /\ UNCHANGED wconn

Phase4BeginLower(js, j) ==
    [LogStep(js, j, "Phase 4: Getting Reddit sentiment", "running") EXCEPT
        ![j].progress = 50,
        ![j].message = "Fetching Reddit sentiment..."]

\* start of Phase 4, up to the first await inside fetch_reddit_sentiment
Phase4Begin(js, j) ==
    [LogStep(js, j, "Phase 4: Getting Reddit sentiment", "running") EXCEPT
        ![j].progress = 90,
        ![j].message = "Fetching Reddit sentiment..."]

\* future.result returned: fetch_short_data_sync has finished
P3Joined(j) ==
    /\ pc[j] = "p3_wait"
    /\ p3_thread[j] = "done"
    /\ j \in DOMAIN jobs
    /\ jobs' = Phase4Begin(jobs, j)
    /\ pc' = [pc EXCEPT ![j] = "p4"]
    /\ resp' = NoResp
    /\ UNCHANGED <<cutoff, scan_thread, scan_results, p3_thread, p3_index,
                   filtered_stocks, tws_warning, conns, env, simpleVars, overran, pure>>
    /\ UNCHANGED allocVars /\ UNCHANGED wconn

\* future.result(timeout=60) raised TimeoutError: "Phase 3 thread error" is
\* logged and the job goes on while fetch_short_data_sync is queued or running
P3TimedOut(j) ==
    /\ pc[j] = "p3_wait"
    /\ p3_thread[j] # "done"
    /\ j \in DOMAIN jobs
    /\ jobs' = Phase4Begin(LogStep(jobs, j, "Phase 3 thread error", "error"), j)
    /\ pc' = [pc EXCEPT ![j] = "p4"]
    /\ resp' = NoResp
    /\ UNCHANGED <<cutoff, scan_thread, scan_results, p3_thread, p3_index,
                   filtered_stocks, tws_warning, conns, env, simpleVars, overran, pure>>
    /\ UNCHANGED allocVars /\ UNCHANGED wconn

\* ------------------------------------------------ Phases 4 and 5, completion
WithSentimentAll(stocks, outcome) ==
    [i \in 1..Len(stocks) |->
        IF outcome \in {"posts", "unreachable"}
        THEN [stocks[i] EXCEPT !.reddit_mentions = Some(0),
                               !.reddit_sentiment = Some(0),
                               !.reddit_sentiment_label = "NEUTRAL"]
        ELSE stocks[i]]

\* fetch_reddit_sentiment: the sentiment fields of the first 5 stocks, the
\* score in thousandths
WithSentiment(stocks, outcome) ==
    [i \in 1..Len(stocks) |->
        IF i <= TopN /\ outcome = "posts"
        THEN [stocks[i] EXCEPT !.reddit_mentions = Some(3),
                               !.reddit_sentiment = Some(500),
                               !.reddit_sentiment_label = "BULLISH"]
        ELSE IF i <= TopN /\ outcome = "unreachable"
        THEN [stocks[i] EXCEPT !.reddit_mentions = Some(0),
                               !.reddit_sentiment = Some(0),
                               !.reddit_sentiment_label = "NEUTRAL"]
        ELSE stocks[i]]

Phase4Log(stocks, outcome) ==
    IF outcome = "raises"
    THEN << <<"Phase 4 Reddit error", "error">> >>
    ELSE Repeat(<<"stock: mentions, label", "success">>, Min(TopN, Len(stocks)))
         \o << <<"Phase 4 Reddit sentiment complete", "success">> >>

\* Phase 5: the news and catalyst fields of the first 5 stocks
WithNews(stocks, outcome) ==
    [i \in 1..Len(stocks) |->
        IF i <= TopN /\ (outcome = "articles" \/ (outcome = "first_fails" /\ i > 1))
        THEN [stocks[i] EXCEPT !.news = "articles", !.catalyst = "EARNINGS"]
        ELSE stocks[i]]

Phase5SkipIsError(stocks, outcome) ==
    << <<"Phase 5: Getting news", "running">> >>
    \o (IF outcome = "articles"
        THEN Repeat(<<"stock: articles, catalyst", "success">>, Min(TopN, Len(stocks)))
             \o << <<"Phase 5 News complete", "success">> >>
        ELSE IF outcome = "first_fails"
        THEN << <<"stock: News error", "error">> >>
             \o Repeat(<<"stock: articles, catalyst", "success">>,
                       Min(TopN, Len(stocks)) - 1)
             \o << <<"Phase 5 News complete", "success">> >>
        ELSE << <<"Phase 5 News error", "error">> >>)

Phase5Log(stocks, outcome) ==
    << <<"Phase 5: Getting news", "running">> >>
    \o (IF outcome = "articles"
        THEN Repeat(<<"stock: articles, catalyst", "success">>, Min(TopN, Len(stocks)))
             \o << <<"Phase 5 News complete", "success">> >>
        ELSE IF outcome = "first_fails"
        THEN << <<"stock: News error", "error">> >>
             \o Repeat(<<"stock: articles, catalyst", "success">>,
                       Min(TopN, Len(stocks)) - 1)
             \o << <<"Phase 5 News complete", "success">> >>
        ELSE << <<"Phase 5 skipped: No Alpaca API keys", "info">> >>)

\* the rest of Phase 4, Phase 5 and the COMPLETE block
FinishJob(j) ==
    /\ LoopFree
    /\ pc[j] = "p4"
    /\ j \in DOMAIN jobs
    /\ LET stocks == WithNews(WithSentiment(filtered_stocks[j], env.sentiment), env.news)
           js4 == LogSteps(jobs, j, Phase4Log(stocks, env.sentiment))
           js5 == [LogSteps(js4, j, Phase5Log(stocks, env.news)) EXCEPT
                       ![j].progress = 95,
                       ![j].message = "Fetching news catalysts..."]
       IN  /\ filtered_stocks' = [filtered_stocks EXCEPT ![j] = stocks]
           /\ jobs' = Completed(js5, j, Len(stocks), tws_warning[j])
    /\ pc' = [pc EXCEPT ![j] = "done"]
    /\ resp' = NoResp
    /\ UNCHANGED <<cutoff, scan_thread, scan_results, p3_thread, p3_index,
                   tws_warning, conns, env, simpleVars, overran, pure>>
    /\ UNCHANGED allocVars /\ UNCHANGED wconn

Next ==
    \/ start_screening_v2
    \/ clear_jobs
    \/ TimePasses
    \/ \E j \in JobIds :
        \/ get_job_status(j)
        \/ BeginJob(j)
        \/ SyncScanReturns(j)
        \/ SyncScanRaises(j)
        \/ ScanRaised(j)
        \/ ScanEmpty(j)
        \/ ScanFound(j)
        \/ P3Connect(j)
        \/ P3ConnectFails(j)
        \/ P3Stock(j)
        \/ P3Finish(j)
        \/ P3Joined(j)
        \/ P3TimedOut(j)
        \/ FinishJob(j)

Spec == Init /\ [][Next]_vars

\* ================================================== one job, more inputs
\* the only request for a new job that the client sends
StartOnce == NumCreated = 0 /\ start_screening_v2

\* run_scanner_job has no timer of its own: five minutes after it began the job
\* is still in `await loop.run_in_executor(executor, sync_scan)` and goes on
OuterTimeoutPasses(j) ==
    /\ pc[j] = "await_scan"
    /\ ~overran[j]
    /\ overran' = [overran EXCEPT ![j] = TRUE]
    /\ resp' = NoResp
    /\ UNCHANGED <<jobs, pc, cutoff, scan_thread, scan_results, p3_thread, p3_index,
                   filtered_stocks, tws_warning, conns, env, simpleVars, pure>>
    /\ UNCHANGED allocVars /\ UNCHANGED wconn

InitJob ==
    /\ AllocInit /\ PoolInit /\ StoreInit
    /\ env \in JobEnvironments
    /\ pure = NoCall

NextJob ==
    \/ StartOnce
    \/ clear_jobs
    \/ TimePasses
    \/ \E j \in JobIds :
        \/ get_job_status(j)
        \/ BeginJob(j)
        \/ SyncScanAnswers(j, JobScanAnswers)
        \/ SyncScanRaises(j)
        \/ OuterTimeoutPasses(j)
        \/ ScanRaised(j)
        \/ ScanEmpty(j)
        \/ ScanFound(j)
        \/ P3Connect(j)
        \/ P3ConnectFails(j)
        \/ P3Stock(j)
        \/ P3Finish(j)
        \/ P3Joined(j)
        \/ P3TimedOut(j)
        \/ FinishJob(j)

SpecJob == InitJob /\ [][NextJob]_vars

\* the steps of the coroutine run_scanner_job of job j, taken by the event loop
Orchestrator(j) ==
    \/ BeginJob(j) \/ ScanRaised(j) \/ ScanEmpty(j) \/ ScanFound(j)
    \/ P3Joined(j) \/ P3TimedOut(j) \/ FinishJob(j)

\* the steps of the pool threads working for job j: sync_scan and
\* fetch_short_data_sync, each a series of calls to the gateway
Worker(j) ==
    \/ SyncScanAnswers(j, JobScanAnswers) \/ SyncScanRaises(j)
    \/ P3Connect(j) \/ P3ConnectFails(j) \/ P3Stock(j) \/ P3Finish(j)

\* one job from its start request to its end; status queries and clear
\* requests change nothing that the job's steps depend on
NextRun == StartOnce \/ \E j \in JobIds : Orchestrator(j) \/ Worker(j)

\* the event loop runs a coroutine that can go on, and every call to the
\* gateway made by a pool thread returns, fails or times out
SpecJobFair ==
    /\ InitJob /\ [][NextRun]_vars
    /\ \A j \in JobIds : WF_vars(Orchestrator(j)) /\ WF_vars(Worker(j))

\* ============================================= direct calls of the filters
\* an enriched stock as Phase 2 builds it, from its scanner rank, gap and volume
Candidate(sym, rank, gap, vol) ==
    Enriched([symbol |-> sym, rank |-> rank, last_price |-> 1000 + 10 * gap,
              previous_close |-> 1000, volume |-> vol, gap_percent |-> gap])

\* stocks to build the argument lists from: an ordinary gapper, a small gap, a
\* gap down, a leveraged ETF and a gap beyond 100 %
Candidates ==
    { Candidate("A", 0, 15, 2500000), Candidate("B", 1, 6, 3000000),
      Candidate("D", 4, -12, 1000000), Candidate("TQQQ", 7, 70, 4000000),
      Candidate("E", 2, 120, 500000) }

\* the lists of at most MaxLen stocks
RECURSIVE ListsUpTo(_)
ListsUpTo(n) ==
    IF n = 0 THEN { <<>> }
    ELSE LET shorter == ListsUpTo(n - 1)
         IN  shorter \cup { Append(l, c) : l \in shorter, c \in Candidates }

\* values of the keyword arguments of apply_supernova_filters
ParamChoices ==
    [min_gap_percent : {0, 10, 20}, max_gap_percent : {0, 50, 100},
     gap_direction : {"up", "down", "both"}, max_volume : {0, 2000000, 3500000},
     exclude_etfs : BOOLEAN]

InitFilter ==
    /\ AllocInit /\ PoolInit /\ StoreInit
    /\ env = [sentiment |-> "posts", news |-> "articles"]
    /\ \E l \in ListsUpTo(MaxLen), p \in ParamChoices :
            pure = [op |-> "call", stocks |-> l, p |-> p]

\* filtered_stocks = apply_supernova_filters(enriched_stocks, ...)
FilterCall ==
    /\ pure.op = "call"
    /\ pure' = [op |-> "filtered", stocks |-> pure.stocks, p |-> pure.p,
                out |-> apply_supernova_filters(pure.stocks, pure.p)]
    /\ UNCHANGED <<jobs, pc, cutoff, scan_thread, scan_results, p3_thread, p3_index,
                   filtered_stocks, tws_warning, conns, env, simpleVars, resp, overran>>
    /\ UNCHANGED allocVars /\ UNCHANGED wconn

\* for i, stock in enumerate(filtered_stocks, 1): stock['rank'] = i
RerankCall ==
    /\ pure.op = "filtered"
    /\ pure' = [op |-> "reranked", stocks |-> pure.stocks, p |-> pure.p,
                out |-> pure.out, ranked |-> Rerank(pure.out)]
    /\ UNCHANGED <<jobs, pc, cutoff, scan_thread, scan_results, p3_thread, p3_index,
                   filtered_stocks, tws_warning, conns, env, simpleVars, resp, overran>>
    /\ UNCHANGED allocVars /\ UNCHANGED wconn

\* the same list filtered again with one threshold changed: a higher
\* min_gap_percent, a lower max_gap_percent or a lower max_volume
Tightenings(p) ==
    { [p EXCEPT !.min_gap_percent = v] :
            v \in {x \in {0, 10, 20} : x > p.min_gap_percent} }
    \cup { [p EXCEPT !.max_gap_percent = v] :
            v \in {x \in {0, 50, 100} : x < p.max_gap_percent} }
    \cup { [p EXCEPT !.max_volume = v] :
            v \in {x \in {0, 2000000, 3500000} : x < p.max_volume} }

SecondCall ==
    /\ pure.op = "filtered"
    /\ \E q \in Tightenings(pure.p) :
            pure' = [op |-> "tightened", stocks |-> pure.stocks, p |-> pure.p,
                     out |-> pure.out, q |-> q,
                     out_q |-> apply_supernova_filters(pure.stocks, q)]
    /\ UNCHANGED <<jobs, pc, cutoff, scan_thread, scan_results, p3_thread, p3_index,
                   filtered_stocks, tws_warning, conns, env, simpleVars, resp, overran>>
    /\ UNCHANGED allocVars /\ UNCHANGED wconn

NextFilter == FilterCall \/ RerankCall \/ SecondCall

SpecFilter == InitFilter /\ [][NextFilter]_vars

\* ================================================================= scoring
calculate_composite_score(rank, bars_data) ==
    LET rank_score == Max(0, 40 - (rank - 1) * 2)
        gap == Abs(Get(bars_data.gap_percent, 0))
        gap_pts == IF gap > 10 THEN 30 ELSE IF gap > 5 THEN 25
                   ELSE IF gap > 3 THEN 20 ELSE IF gap > 1 THEN 10 ELSE 0
        volume == Get(bars_data.pre_market_volume, 0)
        vol_pts == IF volume > 5000000 THEN 20 ELSE IF volume > 1000000 THEN 15
                   ELSE IF volume > 500000 THEN 10
                   ELSE IF volume > 100000 THEN 5 ELSE 0
        momentum == Get(bars_data.momentum_score, 0)
    IN  Min(100, rank_score + gap_pts + vol_pts + Trunc(momentum, 10))

\* FACTOR 1 of _calculate_score: "if float_shares:" is false for None and for 0
FloatPoints(ratios) ==
    LET float_shares == Get(ratios.float_shares, 0)
    IN  IF float_shares = 0 THEN 0
        ELSE IF float_shares < 10000000 THEN 35
        ELSE IF float_shares < 15000000 THEN 28
        ELSE IF float_shares < 20000000 THEN 20
        ELSE IF float_shares < 30000000 THEN 10 ELSE 0

\* FACTOR 2: relative_volume >= k is pre_market_volume >= k * average_volume
\* when average_volume > 0
RelativeVolumePoints(ratios, bars) ==
    LET average_volume == Get(ratios.average_volume, 1)
        pre_market_volume == Get(bars.pre_market_volume, 0)
    IN  IF average_volume > 0
        THEN IF pre_market_volume >= 20 * average_volume THEN 30
             ELSE IF pre_market_volume >= 15 * average_volume THEN 25
             ELSE IF pre_market_volume >= 10 * average_volume THEN 20
             ELSE IF pre_market_volume >= 5 * average_volume THEN 12 ELSE 0
        ELSE 0

\* FACTOR 3
GapPoints(bars) ==
    LET gap_percent == Abs(Get(bars.gap_percent, 0))
    IN  IF gap_percent >= 50 THEN 20 ELSE IF gap_percent >= 30 THEN 18
        ELSE IF gap_percent >= 20 THEN 15 ELSE IF gap_percent >= 10 THEN 10 ELSE 0

\* FACTOR 4: short_pct_float > k is short_interest * 100 > k * float_shares
\* when float_shares > 0
SqueezePoints(ratios, short_data) ==
    LET float_shares == Get(ratios.float_shares, 0)
        short_interest == Get(ratios.short_interest, 0)
        borrow_fee == Get(short_data.borrow_fee_rate, 0)
    IN  IF float_shares > 0
        THEN IF short_interest * 100 > 25 * float_shares /\ borrow_fee > 15 THEN 15
             ELSE IF short_interest * 100 > 20 * float_shares /\ borrow_fee > 10
                  THEN 12
             ELSE IF short_interest * 100 > 15 * float_shares THEN 8
             ELSE IF short_interest * 100 > 10 * float_shares THEN 5 ELSE 0
        ELSE 0

\* ScreeningOrchestrator._calculate_score, with the points of each factor
calculate_score(short_data, ratios, bars) ==
    LET float_pts == FloatPoints(ratios)
        relvol_pts == RelativeVolumePoints(ratios, bars)
        gap_pts == GapPoints(bars)
        squeeze_pts == SqueezePoints(ratios, short_data)
    IN  [float_pts |-> float_pts, relvol_pts |-> relvol_pts, gap_pts |-> gap_pts,
         squeeze_pts |-> squeeze_pts,
         score |-> Min(100, float_pts + relvol_pts + gap_pts + squeeze_pts)]

\* relative volume in screen_pre_market, in hundredths; divisor is what the
\* volume was divided by, if anything
ScreenPreMarketRelVol(ratios, bars) ==
    LET average_volume == Get(ratios.average_volume, 1)
        pre_market_volume == Get(bars.pre_market_volume, 0)
    IN  IF average_volume > 0
        THEN [relative_volume |-> Some((pre_market_volume * 100) \div average_volume),
              divisor |-> Some(average_volume)]
        ELSE [relative_volume |-> Some(0), divisor |-> Absent]

\* relative volume in SimpleOrchestrator.run; fundamentals_data may be None
SimpleRelVol(fundamentals_data) ==
    LET volume == IF fundamentals_data = Absent THEN 0
                  ELSE Get(fundamentals_data[1].volume, 0)
        avg_volume == IF fundamentals_data = Absent THEN 1
                      ELSE Get(fundamentals_data[1].avg_volume_20d, 1)
    IN  IF avg_volume > 0
        THEN [relative_volume |-> Some((volume * 100) \div avg_volume),
              divisor |-> Some(avg_volume)]
        ELSE [relative_volume |-> Some(0), divisor |-> Absent]

RECURSIVE Sum(_)
Sum(seq) == IF seq = <<>> THEN 0 ELSE seq[1] + Sum(Tail(seq))

\* relative volume in fetch_short_data_sync, from the daily volumes of the
\* 20-day bars; avg_vol is a float, so avg_vol > 0 is sum(volumes) > 0
V2RelVol(pm_vol, bar_volumes) ==
    LET volumes == SelectSeq(bar_volumes, LAMBDA v : v > 0)
    IN  IF Len(bar_volumes) > 0 /\ Len(volumes) >= 5 /\ Sum(volumes) > 0
        THEN [relative_volume |-> Some((pm_vol * 100 * Len(volumes)) \div Sum(volumes)),
              divisor |-> Some(Sum(volumes) \div Len(volumes))]
        ELSE [relative_volume |-> Absent, divisor |-> Absent]

\* arguments of the scoring calls: ranks, gaps in per cent, volumes, momentum
InlineArgs ==
    [rank : {0, 1, 25}, gap_percent : {-12, 0, 4, 15},
     volume : {-1000000, 0, 600000, 2500000, 6000000}]

CompositeArgs ==
    [rank : {0, 1, 25},
     bars_data : [gap_percent : {Absent, Some(-12), Some(4), Some(15)},
                  pre_market_volume : {Absent, Some(600000), Some(6000000)},
                  momentum_score : {Absent, Some(-50), Some(100), Some(150)}]]

OrchestratorArgs ==
    [ratios : [float_shares : {Absent, Some(0), Some(5000000), Some(25000000),
                               Some(40000000)},
               average_volume : {Absent, Some(0), Some(100000)},
               short_interest : {Absent, Some(1500000)}],
     bars : [pre_market_volume : {Absent, Some(0), Some(600000), Some(2500000)},
             gap_percent : {Absent, Some(-12), Some(35)}],
     short_data : [borrow_fee_rate : {Absent, Some(20)}]]

FundamentalsChoices ==
    {Absent} \cup
    { Some(f) : f \in [volume : {Absent, Some(0), Some(600000)},
                       avg_volume_20d : {Absent, Some(0), Some(100000)}] }

\* daily volumes of the 20-day bars: none, too few, all zero, enough
BarVolumeChoices ==
    { <<>>, <<100000, 100000, 100000, 100000>>, <<0, 0, 0, 0, 0>>,
      <<100000, 200000, 0, 300000, 100000, 300000>> }

ScoreCalls ==
    { [op |-> "call", fn |-> "inline", args |-> a] : a \in InlineArgs }
    \cup { [op |-> "call", fn |-> "composite", args |-> a] : a \in CompositeArgs }
    \cup { [op |-> "call", fn |-> "orchestrator", args |-> a] : a \in OrchestratorArgs }
    \cup { [op |-> "call", fn |-> "simple", args |-> a] : a \in FundamentalsChoices }
    \cup { [op |-> "call", fn |-> "v2",
            args |-> [pre_market_volume |-> v, bar_volumes |-> b]] :
                v \in {0, 600000}, b \in BarVolumeChoices }

InitScore ==
    /\ AllocInit /\ PoolInit /\ StoreInit
    /\ env = [sentiment |-> "posts", news |-> "articles"]
    /\ pure \in ScoreCalls

ScoreUnchanged ==
    /\ UNCHANGED <<jobs, pc, cutoff, scan_thread, scan_results, p3_thread, p3_index,
                   filtered_stocks, tws_warning, conns, env, simpleVars, resp, overran>>
    /\ UNCHANGED allocVars /\ UNCHANGED wconn

\* total_score = int(rank_score + gap_score + vol_score)
InlineScoreCall ==
    /\ pure.op = "call" /\ pure.fn = "inline"
    /\ pure' = [op |-> "scored", fn |-> pure.fn, args |-> pure.args,
                score |-> InlineScore(pure.args.rank, pure.args.gap_percent,
                                      pure.args.volume)]
    /\ ScoreUnchanged

CompositeScoreCall ==
    /\ pure.op = "call" /\ pure.fn = "composite"
    /\ pure' = [op |-> "scored", fn |-> pure.fn, args |-> pure.args,
                score |-> calculate_composite_score(pure.args.rank,
                                                    pure.args.bars_data)]
    /\ ScoreUnchanged

\* the relative-volume step of screen_pre_market, then score = self._calculate_score(...)
OrchestratorScoreCall ==
    /\ pure.op = "call" /\ pure.fn = "orchestrator"
    /\ LET r == calculate_score(pure.args.short_data, pure.args.ratios,
                                pure.args.bars)
       IN  pure' = [op |-> "scored", fn |-> pure.fn, args |-> pure.args,
                    score |-> r.score, points |-> r,
                    relvol |-> ScreenPreMarketRelVol(pure.args.ratios,
                                                     pure.args.bars)]
    /\ ScoreUnchanged

SimpleRelVolCall ==
    /\ pure.op = "call" /\ pure.fn = "simple"
    /\ pure' = [op |-> "relvol", fn |-> pure.fn, args |-> pure.args,
                relvol |-> SimpleRelVol(pure.args)]
    /\ ScoreUnchanged

V2RelVolCall ==
    /\ pure.op = "call" /\ pure.fn = "v2"
    /\ pure' = [op |-> "relvol", fn |-> pure.fn, args |-> pure.args,
                relvol |-> V2RelVol(pure.args.pre_market_volume,
                                    pure.args.bar_volumes)]
    /\ ScoreUnchanged

NextScore ==
    \/ InlineScoreCall \/ CompositeScoreCall \/ OrchestratorScoreCall
    \/ SimpleRelVolCall \/ V2RelVolCall

SpecScore == InitScore /\ [][NextScore]_vars

\* ============================================ Phases 4 and 5 on long lists
MaxSurvivors == 7

\* seven survivors of the filters in rank order
Survivors ==
    << Candidate("A", 0, 15, 2500000), Candidate("B", 1, 12, 3000000),
       Candidate("C", 2, 25, 1500000), Candidate("F", 3, 11, 900000),
       Candidate("G", 4, 40, 700000), Candidate("H", 5, 18, 650000),
       Candidate("K", 6, 30, 600000) >>

\* the symbols client.get_sentiment is called with: the RedditSentimentClient
\* import or construction raised, or one call for each of filtered_stocks[:5]
SentimentRequests(stocks, outcome) ==
    IF outcome = "raises" THEN <<>>
    ELSE [i \in 1..Min(TopN, Len(stocks)) |-> stocks[i].symbol]

\* the symbols of the Alpaca news requests: none without API keys, else one
\* requests.get for each of filtered_stocks[:5]
NewsRequests(stocks, outcome) ==
    IF outcome = "unconfigured" THEN <<>>
    ELSE [i \in 1..Min(TopN, Len(stocks)) |-> stocks[i].symbol]

InitTop ==
    /\ AllocInit /\ PoolInit /\ StoreInit
    /\ env \in JobEnvironments
    /\ \E a \in 1..MaxSurvivors : \E b \in a..MaxSurvivors :
            pure = [op |-> "survivors", stocks |-> SubSeq(Survivors, a, b)]

\* Phase 4 on the list: the requests it issues and the list it leaves
SentimentCall ==
    /\ pure.op = "survivors"
    /\ pure' = [op |-> "sentiment", stocks |-> pure.stocks,
                requests |-> SentimentRequests(pure.stocks, env.sentiment),
                out |-> WithSentiment(pure.stocks, env.sentiment)]
    /\ ScoreUnchanged

\* Phase 5 on the list that Phase 4 left
NewsCall ==
    /\ pure.op = "sentiment"
    /\ pure' = [op |-> "news", stocks |-> pure.stocks,
                requests |-> pure.requests \o NewsRequests(pure.out, env.news),
                out |-> WithNews(pure.out, env.news)]
    /\ ScoreUnchanged

NextTop == SentimentCall \/ NewsCall

SpecTop == InitTop /\ [][NextTop]_vars

FallbackAlways ==
    /\ pure.op = "screen" /\ pure.step = "scanned"
    /\ pure' = [pure EXCEPT !.step = "rescanned", !.calls = Append(@, "MOST_ACTIVE"),
                            !.scan_results = pure.fallback]
    /\ UNCHANGED <<jobs, pc, cutoff, scan_thread, scan_results, p3_thread, p3_index,
                   filtered_stocks, tws_warning, conns, env, simpleVars, resp, overran>>
    /\ UNCHANGED allocVars /\ UNCHANGED wconn

\* ======================================= screen_pre_market, the two scans
\* what a scanner hands back: no row, or rows of up to two symbols
ScanLists == { <<>>, <<"X">>, <<"Y">>, <<"X", "Y">>, <<"Y", "X">> }

\* the score _calculate_score gives the symbol's data on this day
ScoreOf(symbol) == IF symbol = "X" THEN 60 ELSE 80

RemoveAt(s, i) == SubSeq(s, 1, i - 1) \o SubSeq(s, i + 1, Len(s))

\* enriched_results.sort(key=lambda x: x['score'], reverse=True)
RECURSIVE SortByScore(_)
SortByScore(s) ==
    IF s = <<>> THEN <<>>
    ELSE LET i == CHOOSE i \in 1..Len(s) :
                    /\ \A k \in 1..Len(s) : s[k].score <= s[i].score
                    /\ \A k \in 1..(i - 1) : s[k].score < s[i].score
         IN  <<s[i]>> \o SortByScore(RemoveAt(s, i))

\* the loop over scan_results[:max_results]: a stock whose data passes the
\* float and relative-volume filters is appended with its score, the others
\* are skipped
EnrichedResults(scan_results_, max_results, passing) ==
    LET head == SubSeq(scan_results_, 1, Min(max_results, Len(scan_results_)))
        kept == SelectSeq(head, LAMBDA sym : sym \in passing)
    IN  [i \in 1..Len(kept) |-> [symbol |-> kept[i], score |-> ScoreOf(kept[i])]]

\* a call in non-test mode: what each scanner would return, which symbols
\* pass the filters, and max_results
InitScreen ==
    /\ AllocInit /\ PoolInit /\ StoreInit
    /\ env = [sentiment |-> "posts", news |-> "articles"]
    /\ \E primary \in ScanLists, fallback \in ScanLists,
          passing \in SUBSET {"X", "Y"}, max_results \in 1..2 :
            pure = [op |-> "screen", step |-> "connected", primary |-> primary,
                    fallback |-> fallback, passing |-> passing,
                    max_results |-> max_results, calls |-> <<>>,
                    scan_results |-> <<>>]

\* scan_results = await self.scanner.scan_hot_by_volume(...)
PrimaryScan ==
    /\ pure.op = "screen" /\ pure.step = "connected"
    /\ pure' = [pure EXCEPT !.step = "scanned", !.calls = Append(@, "HOT_BY_VOLUME"),
                            !.scan_results = pure.primary]
    /\ ScoreUnchanged

\* if not scan_results: scan_results = await scan_historical_top_gains(...)
FallbackScan ==
    /\ pure.op = "screen" /\ pure.step = "scanned"
    /\ pure.scan_results = <<>>
    /\ pure' = [pure EXCEPT !.step = "rescanned", !.calls = Append(@, "MOST_ACTIVE"),
                            !.scan_results = pure.fallback]
    /\ ScoreUnchanged

\* if not scan_results: self.scanner.disconnect(); return the empty result
ReturnEmpty ==
    /\ pure.op = "screen" /\ pure.step = "rescanned"
    /\ pure.scan_results = <<>>
    /\ pure' = [op |-> "screened", primary |-> pure.primary, fallback |-> pure.fallback,
                calls |-> pure.calls, processed |-> 0,
                result |-> [stocks |-> <<>>, total_scanned |-> 0, total_returned |-> 0]]
    /\ ScoreUnchanged

\* Steps 3 to 6: enrich, disconnect, sort by score, build and save the result
EnrichAndReturn ==
    /\ pure.op = "screen" /\ pure.step \in {"scanned", "rescanned"}
    /\ pure.scan_results # <<>>
    /\ LET enriched_results ==
                SortByScore(EnrichedResults(pure.scan_results, pure.max_results,
                                            pure.passing))
       IN  pure' = [op |-> "screened", primary |-> pure.primary,
                    fallback |-> pure.fallback, calls |-> pure.calls,
                    processed |-> Min(pure.max_results, Len(pure.scan_results)),
                    result |-> [stocks |-> enriched_results,
                                total_scanned |-> Len(pure.scan_results),
                                total_returned |-> Len(enriched_results)]]
    /\ ScoreUnchanged

NextScreen == PrimaryScan \/ FallbackScan \/ ReturnEmpty \/ EnrichAndReturn

SpecScreen == InitScreen /\ [][NextScreen]_vars

\* ================================================ the pool under many jobs
\* Six v2 jobs with the pipeline reduced to what decides when a job is
\* running: the start request, the start of the coroutine, the sync_scan
\* task on the executor, and the end of the run.
InitPool ==
    /\ AllocInit /\ PoolInit /\ StoreInit
    /\ env = [sentiment |-> "posts", news |-> "articles"]
    /\ pure = NoCall

PoolUnchanged ==
    /\ UNCHANGED <<jobs, pc, cutoff, scan_thread, scan_results, p3_thread, p3_index,
                   filtered_stocks, tws_warning, conns, env, resp, overran, pure,
                   screening_status, runs>>
    /\ UNCHANGED allocVars /\ UNCHANGED wconn

\* sync_scan calls that a worker thread of the executor is running
BusyWorkers == Cardinality({j \in PoolJobs : pool[j].task = "running"})

\* start_screening_v2: the record is stored with status queued and
\* run_scanner_job is added as a background task
PoolStart(j) ==
    /\ pool[j].status = "none"
    /\ \A k \in PoolJobs : k < j => pool[k].status # "none"
    /\ pool' = [pool EXCEPT ![j].status = "queued"]
    /\ PoolUnchanged

\* the event loop starts the coroutine: status running, then
\* loop.run_in_executor(executor, sync_scan) submits the scan
PoolBegin(j) ==
    /\ pool[j].status = "queued"
    /\ pool' = [pool EXCEPT ![j].status = "running", ![j].task = "queued"]
    /\ PoolUnchanged

\* a free worker thread of the executor takes the sync_scan call
PoolTake(j) ==
    /\ pool[j].task = "queued"
    /\ BusyWorkers < MaxWorkers
    /\ pool' = [pool EXCEPT ![j].task = "running"]
    /\ PoolUnchanged

\* sync_scan returns or raises on its worker thread
PoolScanEnds(j) ==
    /\ pool[j].task = "running"
    /\ pool' = [pool EXCEPT ![j].task = "done"]
    /\ PoolUnchanged

\* the coroutine goes on after the await and reaches its end
PoolEnd(j) ==
    /\ pool[j].status = "running"
    /\ pool[j].task = "done"
    /\ \E st \in {"completed", "failed"} : pool' = [pool EXCEPT ![j].status = st]
    /\ PoolUnchanged

NextPool ==
    \E j \in PoolJobs :
        PoolStart(j) \/ PoolBegin(j) \/ PoolTake(j) \/ PoolScanEnds(j) \/ PoolEnd(j)

SpecPool == InitPool /\ [][NextPool]_vars

\* ==================================================== run_simple_screening
\* Calls of run_simple_screening, each on a thread of its own, with the
\* module-level screening_status they all write.
InitSimple ==
    /\ AllocInit /\ PoolInit /\ StoreInit
    /\ env = [sentiment |-> "posts", news |-> "articles"]
    /\ pure = NoCall

SimpleUnchanged ==
    /\ UNCHANGED <<jobs, pc, cutoff, scan_thread, scan_results, p3_thread, p3_index,
                   filtered_stocks, tws_warning, conns, env, resp, overran, pure, pool>>
    /\ UNCHANGED allocVars /\ UNCHANGED wconn

\* the client ID is in use by the open connection of another run
InUse(r, id) ==
    \E o \in Runs \ {r} : runs[o].is_connected /\ runs[o].client_id = id

\* POST /screening/run-simple; the background task starts and writes the
\* first status
RunSimple(r) ==
    /\ runs[r].pc = "none"
    /\ screening_status' =
            [running |-> TRUE, step |-> "Connecting to TWS", progress |-> 10,
             message |-> "Connecting to TWS Desktop...", stocks_found |-> 0]
    /\ runs' = [runs EXCEPT ![r].pc = "connecting"]
    /\ SimpleUnchanged

\* scanner = TWSScannerSync(); scanner.connect() returns; status Scanning
SimpleConnects(r) ==
    /\ runs[r].pc = "connecting"
    /\ ~InUse(r, DefaultClientId)
    /\ runs' = [runs EXCEPT ![r] = [pc |-> "scanning", client_id |-> DefaultClientId,
                                    is_connected |-> TRUE]]
    /\ screening_status' =
            [screening_status EXCEPT !.step = "Scanning", !.progress = 30,
                                     !.message = "Scanning for stocks..."]
    /\ SimpleUnchanged

\* scanner = TWSScannerSync(); scanner.connect() raises ConnectionError: the
\* gateway is down or refuses a client ID that is in use
SimpleConnectRaises(r) ==
    /\ runs[r].pc = "connecting"
    /\ runs' = [runs EXCEPT ![r] = [pc |-> "raised", client_id |-> DefaultClientId,
                                    is_connected |-> FALSE]]
    /\ UNCHANGED screening_status
    /\ SimpleUnchanged

\* scan_most_active returned rows: status Saving
SimpleScanFound(r) ==
    /\ runs[r].pc = "scanning"
    /\ runs' = [runs EXCEPT ![r].pc = "saving"]
    /\ screening_status' =
            [screening_status EXCEPT !.step = "Saving", !.progress = 70,
                                     !.message = "Saving stocks to database..."]
    /\ SimpleUnchanged

\* if not scan_results: status Complete, scanner.disconnect(), return
SimpleScanEmpty(r) ==
    /\ runs[r].pc = "scanning"
    /\ runs' = [runs EXCEPT ![r].pc = "returned", ![r].is_connected = FALSE]
    /\ screening_status' =
            [running |-> FALSE, step |-> "Complete", progress |-> 100,
             message |-> "No stocks found matching criteria", stocks_found |-> 0]
    /\ SimpleUnchanged

\* supabase.save_screening_result returned: status Complete, disconnect
SimpleSaved(r) ==
    /\ runs[r].pc = "saving"
    /\ runs' = [runs EXCEPT ![r].pc = "returned", ![r].is_connected = FALSE]
    /\ screening_status' =
            [running |-> FALSE, step |-> "Complete", progress |-> 100,
             message |-> "Found stocks!", stocks_found |-> 2]
    /\ SimpleUnchanged

\* the import of SupabaseClient, its construction or the save raises
SimpleSaveRaises(r) ==
    /\ runs[r].pc = "saving"
    /\ runs' = [runs EXCEPT ![r].pc = "raised"]
    /\ UNCHANGED screening_status
    /\ SimpleUnchanged

\* except Exception as e: status Error; the function returns
SimpleExcept(r) ==
    /\ runs[r].pc = "raised"
    /\ runs' = [runs EXCEPT ![r].pc = "returned"]
    /\ screening_status' =
            [running |-> FALSE, step |-> "Error", progress |-> 0,
             message |-> "Error", stocks_found |-> 0]
    /\ SimpleUnchanged

NextSimple ==
    \E r \in Runs :
        \/ RunSimple(r) \/ SimpleConnects(r) \/ SimpleConnectRaises(r)
        \/ SimpleScanFound(r) \/ SimpleScanEmpty(r)
        \/ SimpleSaved(r) \/ SimpleSaveRaises(r) \/ SimpleExcept(r)

SpecSimple == InitSimple /\ [][NextSimple]_vars

\* ============================================================== properties
\* how many entries of the flow log carry the message
Count(job, msg) ==
    Cardinality({i \in 1..Len(job.flow_log) : job.flow_log[i].message = msg})

\* a historical-bars request of the job's scan failed: the row has no price
BarsFailed(j) ==
    /\ scan_thread[j] = "returned"
    /\ \E i \in 1..Len(scan_results[j]) : scan_results[j][i].last_price = 0

StatusMoves ==
    {<<"queued", "running">>, <<"running", "completed">>, <<"running", "failed">>}

\* C1: a job's record enters the store with status queued, only when the job is
\* created; from then on every step either leaves the status alone or moves it
\* queued -> running, running -> completed or running -> failed, so a terminal
\* status is never changed again and a removed job never comes back.
C1_StatusLifecycle ==
    [][\A j \in JobIds :
        /\ (j \in DOMAIN jobs /\ j \in DOMAIN jobs') =>
                \/ jobs'[j].status = jobs[j].status
                \/ <<jobs[j].status, jobs'[j].status>> \in StatusMoves
        /\ (j \notin DOMAIN jobs /\ j \in DOMAIN jobs') =>
                pc[j] = "fresh" /\ jobs'[j].status = "queued"]_vars

\* a job has failed, and another one is completed although its Phase 3 task,
\* which outlived the 60 s wait, logged a connection error after the completion
C1_Witness ==
    \E j, k \in DOMAIN jobs :
        /\ jobs[j].status = "failed"
        /\ jobs[k].status = "completed"
        /\ p3_thread[k] = "done"
        /\ jobs[k].flow_log[Len(jobs[k].flow_log)].message = "Phase 3 connection error"

\* run_scanner_job has been scheduled for the job and has not reached its end
InFlight == {"pending", "await_scan", "p3_wait", "p4"}

\* C5: a job that is queued or running is in the job store, in every reachable
\* state and however old it is: neither cleanup_old_jobs nor clear_jobs removes it.
C5_ActiveJobsKept ==
    \A j \in JobIds :
        pc[j] \in InFlight => j \in DOMAIN jobs /\ jobs[j].status \in Active

\* start_screening_v2 has just run cleanup_old_jobs and stored a new job while
\* an older running job, created before the cutoff, is still in the store
C5_Witness ==
    /\ resp.op = "start"
    /\ \E j \in DOMAIN jobs :
        /\ j # resp.job
        /\ jobs[j].status = "running"
        /\ jobs[j].created_at <= cutoff

\* C6: the answer of get_job_status is the stored record, with code 200, when
\* the identifier is in the store (for a failed job: with its error set), and
\* 404 exactly when it is not, as for an evicted or cleared job.
C6_StatusQuery ==
    resp.op = "status" =>
        IF resp.job \in DOMAIN jobs
        THEN /\ resp.code = 200
             /\ DOMAIN resp.body = DOMAIN jobs[resp.job]
             /\ \A f \in DOMAIN jobs[resp.job] \ {"stocks"} :
                    resp.body[f] = jobs[resp.job][f]
             /\ (jobs[resp.job].stocks = "None" => resp.body.stocks = "None")
             /\ (jobs[resp.job].stocks # "None" =>
                    resp.body.stocks = filtered_stocks[resp.job])
             /\ (jobs[resp.job].status = "failed" => resp.body.error # "None")
        ELSE resp.code = 404

\* a status query answered with the record of a failed job, while a finished
\* job has been removed from the store
C6_Witness ==
    /\ resp.op = "status"
    /\ resp.code = 200
    /\ resp.body.status = "failed"
    /\ resp.body.error # "None"
    /\ \E k \in JobIds : pc[k] = "done" /\ k \notin DOMAIN jobs

\* messages of the flow log of a stored record
Messages(job) == {job.flow_log[i].message : i \in 1..Len(job.flow_log)}

\* the first log entry of Phases 2, 3, 4 and 5
PhaseMessages ==
    {"Processing enriched scan results...", "Applying filters",
     "Phase 3: Getting short data", "Phase 4: Getting Reddit sentiment",
     "Phase 5: Getting news"}

\* C7: a failed job has progress 0, an error detail and no stocks attached, and
\* nothing of the pipeline ran after the failure: run_scanner_job is over, the
\* error entry is the last of the flow log, no Phase 3 task exists and no
\* candidate list was built.
C7_FailedRecord ==
    \A j \in DOMAIN jobs :
        jobs[j].status = "failed" =>
            /\ jobs[j].progress = 0
            /\ jobs[j].error # "None"
            /\ jobs[j].stocks = "None"
            /\ pc[j] = "done"
            /\ p3_thread[j] = "none"
            /\ filtered_stocks[j] = <<>>
            /\ jobs[j].flow_log[Len(jobs[j].flow_log)].message = "Error"
            /\ Messages(jobs[j]) \cap PhaseMessages = {}

\* a failed job that has stayed in the store past the retention window
C7_Witness ==
    \E j \in DOMAIN jobs :
        /\ jobs[j].status = "failed"
        /\ scan_thread[j] = "raised"
        /\ jobs[j].created_at <= cutoff

\* sync_scan has returned an empty list for the job
EmptyScan(j) == scan_thread[j] = "returned" /\ scan_results[j] = <<>>

\* C8: a job whose scan returned no candidates goes from the await straight to
\* its end: completed, stocks_found 0, the explanatory message, no error, no
\* stocks, and no entry or task of a later phase.
C8_EmptyScanCompletes ==
    \A j \in JobIds :
        EmptyScan(j) =>
            /\ pc[j] \in {"await_scan", "done"}
            /\ p3_thread[j] = "none"
            /\ filtered_stocks[j] = <<>>
            /\ (pc[j] = "done" /\ j \in DOMAIN jobs) =>
                    /\ jobs[j].status = "completed"
                    /\ jobs[j].stocks_found = 0
                    /\ jobs[j].message = "No stocks found matching criteria"
                    /\ jobs[j].error = "None"
                    /\ jobs[j].stocks = "None"
                    /\ Messages(jobs[j]) \cap PhaseMessages = {}

\* a job completed after an empty scan
C8_Witness ==
    \E j \in DOMAIN jobs :
        /\ EmptyScan(j)
        /\ pc[j] = "done"
        /\ jobs[j].status = "completed"
        /\ jobs[j].progress = 100

\* the scan of the job returned candidates and none of them passes the filters
NoSurvivor(j) ==
    /\ scan_thread[j] = "returned"
    /\ scan_results[j] # <<>>
    /\ apply_supernova_filters(
            [i \in 1..Len(scan_results[j]) |-> Enriched(scan_results[j][i])],
            DefaultParams) = <<>>

\* C9: when no candidate survives the filters the job completes with an empty
\* list and stocks_found 0, never fails, and Phases 3, 4 and 5 do not run.
C9_NoSurvivorCompletes ==
    \A j \in JobIds :
        NoSurvivor(j) =>
            /\ pc[j] \in {"await_scan", "done"}
            /\ p3_thread[j] = "none"
            /\ filtered_stocks[j] = <<>>
            /\ (pc[j] = "done" /\ j \in DOMAIN jobs) =>
                    /\ jobs[j].status = "completed"
                    /\ jobs[j].stocks = "filtered_stocks"
                    /\ jobs[j].stocks_found = 0
                    /\ jobs[j].error = "None"
                    /\ Messages(jobs[j]) \cap
                            {"Phase 3: Getting short data",
                             "Phase 4: Getting Reddit sentiment",
                             "Phase 5: Getting news"} = {}

\* a job completed after a scan whose candidates were all filtered out
C9_Witness ==
    \E j \in DOMAIN jobs :
        /\ NoSurvivor(j)
        /\ pc[j] = "done"
        /\ jobs[j].status = "completed"
        /\ "Filtered stocks (gap/direction)" \in Messages(jobs[j])

\* C10: Phase 4 and what follows it start only when the Phase 3 task, if there
\* is one, has finished, so that nothing writes to the candidate list any more.
C10_Phase4AfterPhase3 ==
    \A j \in JobIds :
        pc[j] \in {"p4", "done"} => p3_thread[j] \in {"none", "done"}

\* the scan returned rows and the bars request failed for every one of them
AllBarsFailed(j) ==
    /\ scan_thread[j] = "returned"
    /\ scan_results[j] # <<>>
    /\ \A i \in 1..Len(scan_results[j]) : scan_results[j][i].last_price = 0

\* C12: a job all of whose candidates are without price data is not failed,
\* goes through the filtering pass and ends completed with a warning in its
\* record; the record of any other job never carries a warning.
C12_DegradedSourceWarning ==
    \A j \in DOMAIN jobs :
        /\ AllBarsFailed(j) =>
                /\ jobs[j].status # "failed"
                /\ pc[j] = "done" =>
                        /\ jobs[j].status = "completed"
                        /\ jobs[j].warning # "None"
                        /\ "Applying filters" \in Messages(jobs[j])
        /\ ~AllBarsFailed(j) => jobs[j].warning = "None"

\* one completed job: every bars request failed and the record has the warning
C12_Witness ==
    \E j \in DOMAIN jobs :
        /\ AllBarsFailed(j)
        /\ jobs[j].status = "completed"
        /\ jobs[j].warning = "All historical data requests failed"

\* C13: a job whose connection to the gateway could not be established, for
\* the scan or for Phase 3, is never completed: it ends failed with the cause
\* recorded.
C13_ConnectionFailureFails ==
    \A j \in DOMAIN jobs :
        (scan_thread[j] = "raised" \/ Count(jobs[j], "Phase 3 connection error") > 0) =>
            /\ jobs[j].status # "completed"
            /\ pc[j] = "done" => jobs[j].status = "failed" /\ jobs[j].error # "None"

\* C14: a job whose run lasted longer than the whole-job timeout while its
\* candidates were being enriched ends failed, with progress 0, an error
\* detail and no stocks attached.
C14_OuterTimeoutFails ==
    \A j \in DOMAIN jobs :
        (overran[j] /\ pc[j] = "done") =>
            /\ jobs[j].status = "failed"
            /\ jobs[j].progress = 0
            /\ jobs[j].error # "None"
            /\ jobs[j].stocks = "None"

\* C15 as stated: the progress of a stored job is within 0..100 and no step
\* lowers it.
C15_ProgressNeverDecreases ==
    [][\A j \in DOMAIN jobs \cap DOMAIN jobs' :
        /\ jobs'[j].progress \in 0..100
        /\ jobs'[j].progress >= jobs[j].progress]_vars

\* C15: the progress of a stored job is within 0..100, and a step lowers it
\* only when it is the step that records the failure of the job, which resets
\* it to 0.
C15_ProgressMonotoneUntilFailure ==
    [][\A j \in DOMAIN jobs \cap DOMAIN jobs' :
        /\ jobs'[j].progress \in 0..100
        /\ \/ jobs'[j].progress >= jobs[j].progress
           \/ /\ jobs[j].status # "failed"
              /\ jobs'[j].status = "failed"
              /\ jobs'[j].progress = 0]_vars

\* a job that had reached progress 10 and then failed: its progress is 0
C15_Witness ==
    \E j \in DOMAIN jobs :
        /\ Count(jobs[j], "Running TOP_PERC_GAIN scanner (gappers)...") = 1
        /\ jobs[j].status = "failed"
        /\ jobs[j].progress = 0

\* C16: a completed job has progress 100 and a completion time, and its
\* stocks_found is the length of the list attached to it, 0 without a list.
C16_CompletedRecord ==
    \A j \in DOMAIN jobs :
        jobs[j].status = "completed" =>
            /\ jobs[j].progress = 100
            /\ jobs[j].completed_at # "None"
            /\ jobs[j].stocks_found =
                    IF jobs[j].stocks = "None" THEN 0 ELSE Len(filtered_stocks[j])

\* a job completed with two of the three scanned stocks attached
C16_Witness ==
    \E j \in DOMAIN jobs :
        /\ jobs[j].status = "completed"
        /\ jobs[j].stocks = "filtered_stocks"
        /\ Len(scan_results[j]) = 3
        /\ jobs[j].stocks_found = 2

\* C17: the list attached to a completed job is in descending order of score,
\* stocks of equal score in ascending order of rank.
C17_SortedByScore ==
    \A j \in DOMAIN jobs :
        (jobs[j].status = "completed" /\ jobs[j].stocks # "None") =>
            \A a, b \in 1..Len(filtered_stocks[j]) :
                a < b =>
                    \/ filtered_stocks[j][a].score > filtered_stocks[j][b].score
                    \/ /\ filtered_stocks[j][a].score = filtered_stocks[j][b].score
                       /\ filtered_stocks[j][a].rank < filtered_stocks[j][b].rank
\* C18: after the filtering pass the n survivors carry the ranks 1, 2, ..., n
\* in list order, whatever ranks the scan gave them, and nothing else about
\* them has changed.
C18_DenseRanks ==
    pure.op = "reranked" =>
        /\ Len(pure.ranked) = Len(pure.out)
        /\ \A i \in 1..Len(pure.ranked) :
                /\ pure.ranked[i].rank = i
                /\ [pure.ranked[i] EXCEPT !.rank = pure.out[i].rank] = pure.out[i]

\* three survivors whose scan ranks had a gap, a duplicate and a wrong order
C18_Witness ==
    /\ pure.op = "reranked"
    /\ Len(pure.ranked) = 3
    /\ <<pure.out[1].rank, pure.out[2].rank, pure.out[3].rank>> = <<4, 0, 0>>

\* the criteria of the filter, each with its threshold's "no constraint" value
Criteria == {"min_gap", "max_gap", "direction", "max_volume", "etf"}

Satisfies(c, stock, p) ==
    CASE c = "min_gap" -> Abs(stock.gap_percent) >= p.min_gap_percent
      [] c = "max_gap" ->
            p.max_gap_percent = 0 \/ Abs(stock.gap_percent) <= p.max_gap_percent
      [] c = "direction" ->
            p.gap_direction = "both" \/ stock.gap_direction = p.gap_direction
      [] c = "max_volume" ->
            p.max_volume = 0 \/ stock.pre_market_volume <= p.max_volume
      [] c = "etf" -> ~p.exclude_etfs \/ stock.symbol \notin ETF_SYMBOLS

C20_TighteningNeverIncreases ==
    pure.op = "tightened" => Len(pure.out_q) <= Len(pure.out)

\* the second call lowered a maximum that was in force to 0, which is "no limit"
LiftsLimit(p, q) ==
    \/ p.max_gap_percent > 0 /\ q.max_gap_percent = 0
    \/ p.max_volume > 0 /\ q.max_volume = 0

\* C20, amended: tightening one threshold never increases the number of
\* survivors, and keeps only stocks that survived before, unless a maximum
\* is lowered to 0, which removes that limit.
C20_TighteningWithinLimits ==
    (pure.op = "tightened" /\ ~LiftsLimit(pure.p, pure.q)) =>
        /\ Len(pure.out_q) <= Len(pure.out)
        /\ \A i \in 1..Len(pure.out_q) :
                \E k \in 1..Len(pure.out) : pure.out[k] = pure.out_q[i]

\* a lowered max_volume, still positive, that drops some survivors and keeps others
C20_Witness ==
    /\ pure.op = "tightened"
    /\ pure.q.max_volume < pure.p.max_volume /\ pure.q.max_volume > 0
    /\ Len(pure.out_q) > 0 /\ Len(pure.out_q) < Len(pure.out)

\* C21: every score the pipeline assigns lies in [0, 100], whatever the metric
\* values, negative and missing ones included.
C21_ScoreBounded ==
    pure.op = "scored" => (pure.score >= 0 /\ pure.score <= 100)

\* C22: in _calculate_score a factor one of whose metrics is missing gives
\* exactly 0 points.
C22_MissingMetricScoresZero ==
    (pure.op = "scored" /\ pure.fn = "orchestrator") =>
        LET a == pure.args
        IN  /\ a.ratios.float_shares = Absent => pure.points.float_pts = 0
            /\ (a.ratios.average_volume = Absent \/ a.bars.pre_market_volume = Absent)
                    => pure.points.relvol_pts = 0
            /\ a.bars.gap_percent = Absent => pure.points.gap_pts = 0
            /\ (\/ a.ratios.float_shares = Absent
                \/ a.ratios.short_interest = Absent
                \/ a.short_data.borrow_fee_rate = Absent)
                    => pure.points.squeeze_pts = 0

\* the baseline volume of a relative-volume computation is zero or unknown
BaselineUnknown ==
    CASE pure.fn = "orchestrator" ->
            pure.args.ratios.average_volume \in {Absent, Some(0)}
      [] pure.fn = "simple" ->
            \/ pure.args = Absent
            \/ pure.args[1].avg_volume_20d \in {Absent, Some(0)}
      [] pure.fn = "v2" ->
            Len(SelectSeq(pure.args.bar_volumes, LAMBDA v : v > 0)) < 5
      [] OTHER -> FALSE

\* C23: relative volume never divides by zero, and with a zero or unknown
\* baseline it is the sentinel (0 or unset), not a quotient.
C23_RelVolSentinel ==
    (pure.op \in {"scored", "relvol"} /\ pure.fn \in {"orchestrator", "simple", "v2"}) =>
        /\ pure.relvol.divisor # Some(0)
        /\ BaselineUnknown =>
                /\ pure.relvol.divisor = Absent
                /\ pure.relvol.relative_volume \in {Absent, Some(0)}

\* C24: clear_jobs removes every completed or failed job, keeps every queued
\* or running job with its record unchanged, and reports the number removed.
C24_ClearJobs ==
    [][clear_jobs =>
        /\ DOMAIN jobs \ DOMAIN jobs' =
                {k \in DOMAIN jobs : jobs[k].status \in {"completed", "failed"}}
        /\ \A k \in DOMAIN jobs :
                jobs[k].status \in {"queued", "running"} =>
                    k \in DOMAIN jobs' /\ jobs'[k] = jobs[k]
        /\ DOMAIN jobs' \subseteq DOMAIN jobs
        /\ resp'.cleared = Cardinality(DOMAIN jobs \ DOMAIN jobs')]_vars

\* a call that has removed one finished job and kept one that is running
C24_Witness ==
    /\ resp.op = "clear" /\ resp.cleared = 1
    /\ \E j, k \in JobIds :
            /\ pc[j] = "done" /\ j \notin DOMAIN jobs
            /\ k \in DOMAIN jobs /\ jobs[k].status = "running"
                /\ Len(jobs[k].flow_log) > 0

\* C25: after the cleanup_old_jobs call of a start request the store holds,
\* besides the new job, exactly the jobs that were queued or running or were
\* created inside the retention window, each with its record unchanged.
C25_CleanupOldJobs ==
    [][start_screening_v2 =>
        LET survivors == {k \in DOMAIN jobs :
                            \/ jobs[k].status \in {"queued", "running"}
                            \/ jobs[k].created_at > cutoff}
        IN  /\ DOMAIN jobs' \ {FreshJobId} = survivors
            /\ \A k \in survivors : jobs'[k] = jobs[k]]_vars

\* a start request that found the first job finished and past the retention
\* window: that job is gone and the new one is stored
C25_Witness ==
    /\ resp.op = "start" /\ resp.job = 2
    /\ DOMAIN jobs = {2}
    /\ pc[1] = "done" /\ cutoff >= 1

\* C26: a start request adds exactly one record, queued, with progress 0, an
\* empty flow log and no results, error, warning or completion time, and
\* returns it while the job's task has not taken its first step.
C26_StartReturnsQueued ==
    [][start_screening_v2 =>
        LET j == FreshJobId
        IN  /\ DOMAIN jobs' \ DOMAIN jobs = {j}
            /\ jobs'[j].status = "queued" /\ jobs'[j].progress = 0
            /\ jobs'[j].flow_log = <<>> /\ jobs'[j].stocks_found = 0
            /\ jobs'[j].stocks = "None" /\ jobs'[j].error = "None"
            /\ jobs'[j].warning = "None" /\ jobs'[j].completed_at = "None"
            /\ resp'.code = 200 /\ resp'.body = jobs'[j]
            /\ pc'[j] = "pending"
            /\ scan_thread'[j] = scan_thread[j] /\ p3_thread'[j] = p3_thread[j]]_vars

\* the second job has just been returned as queued while the first is in the
\* middle of its pipeline
C26_Witness ==
    /\ resp.op = "start" /\ resp.job = 2 /\ resp.body.status = "queued"
    /\ pc[2] = "pending"
    /\ 1 \in DOMAIN jobs /\ jobs[1].status = "running" /\ jobs[1].progress > 0

\* the entries a job logged after the first entry of Phase 4 and before the
\* first entry of Phase 5
Phase4Entries(job) ==
    LET log == job.flow_log
        from == CHOOSE i \in 1..Len(log) :
                    log[i].message = "Phase 4: Getting Reddit sentiment"
        to == CHOOSE i \in 1..Len(log) : log[i].message = "Phase 5: Getting news"
    IN  {log[i] : i \in (from + 1)..(to - 1)}

\* C27: when the sentiment provider cannot be used, Phase 4 logs an
\* informational skip entry and no error entry, every candidate keeps None in
\* its sentiment fields, and the job completes.
C27_SentimentSkipped ==
    \A j \in DOMAIN jobs :
        (env.sentiment # "posts" /\ pc[j] = "done" /\ Len(filtered_stocks[j]) > 0) =>
            /\ jobs[j].status = "completed"
            /\ \E e \in Phase4Entries(jobs[j]) : e.status = "info"
            /\ \A e \in Phase4Entries(jobs[j]) : e.status # "error"
            /\ \A i \in 1..Len(filtered_stocks[j]) :
                    /\ filtered_stocks[j][i].reddit_mentions = Absent
                    /\ filtered_stocks[j][i].reddit_sentiment = Absent
                    /\ filtered_stocks[j][i].reddit_sentiment_label = "None"

\* the entries of a job's flow log that Phase 5 wrote after its first one
Phase5Entries(job) ==
    {e \in {job.flow_log[i] : i \in 1..Len(job.flow_log)} :
        e.message \in {"stock: articles, catalyst", "stock: News error",
                       "Phase 5 News complete", "Phase 5 News error",
                       "Phase 5 skipped: No Alpaca API keys"}}

\* C28: without Alpaca credentials Phase 5 makes no news request (no stock
\* gets a news entry), logs the skip with severity info and nothing with
\* severity error, leaves news and catalyst None, and the job completes.
C28_NewsSkipped ==
    \A j \in DOMAIN jobs :
        (env.news = "unconfigured" /\ Count(jobs[j], "Phase 5: Getting news") > 0) =>
            /\ jobs[j].status = "completed"
            /\ Phase5Entries(jobs[j]) =
                    {LogEntry("Phase 5 skipped: No Alpaca API keys", "info")}
            /\ \A i \in 1..Len(filtered_stocks[j]) :
                    /\ filtered_stocks[j][i].news = "None"
                    /\ filtered_stocks[j][i].catalyst = "None"

\* a job completed with two candidates and no Alpaca credentials
C28_Witness ==
    \E j \in DOMAIN jobs :
        /\ env.news = "unconfigured"
        /\ jobs[j].status = "completed"
        /\ Len(filtered_stocks[j]) = 2
        /\ Count(jobs[j], "Phase 5 skipped: No Alpaca API keys") = 1

\* C29: once a candidate list is attached to a completed job, no field of
\* any candidate in it changes any more.
C29_AttachedListFrozen ==
    [][\A j \in DOMAIN jobs :
        (jobs[j].status = "completed" /\ jobs[j].stocks # "None") =>
            filtered_stocks'[j] = filtered_stocks[j]]_vars

\* C30: when every external call returns, fails or times out, every job that
\* was started ends completed or failed; none stays queued or running.
C30_JobsTerminate ==
    \A j \in JobIds :
        (pc[j] = "pending") ~>
            (pc[j] = "done" /\ j \in DOMAIN jobs
                /\ jobs[j].status \in {"completed", "failed"})

\* a job that ended completed although its Phase 3 wait hit the 60 s timeout
C30_Witness ==
    \E j \in DOMAIN jobs :
        /\ pc[j] = "done" /\ jobs[j].status = "completed"
        /\ Count(jobs[j], "Phase 3 thread error") = 1
        /\ p3_thread[j] = "done"

\* C31: while a running job is inside an external call, status requests,
\* clear requests and the steps of other jobs can be served.  Here the call
\* is the Phase 3 short-data fetch, which the job waits for in "p3_wait".
C31_YieldsDuringCalls ==
    \A j \in JobIds :
        pc[j] = "p3_wait" =>
            /\ \A k \in JobIds : ENABLED get_job_status(k)
            /\ ENABLED clear_jobs
            /\ \A k \in JobIds : pc[k] = "pending" => ENABLED BeginJob(k)

\* C32: whatever cleanup_old_jobs and clear_jobs calls ran in between, a job
\* whose run has not ended is in the store and a status query returns what
\* its run wrote last: status, progress, message and the latest log entry.
C32_WritesSurviveSweeps ==
    \A j \in JobIds :
        pc[j] \in InFlight =>
            LET r == StatusResponse(jobs, j)
                last == r.body.flow_log[Len(r.body.flow_log)]
            IN  /\ r.code = 200
                /\ pc[j] = "pending" =>
                        /\ r.body.status = "queued" /\ r.body.progress = 0
                        /\ r.body.flow_log = <<>>
                /\ pc[j] = "await_scan" =>
                        /\ r.body.status = "running" /\ r.body.progress = 10
                        /\ r.body.flow_log # <<>>
                        /\ last.message = "Running TOP_PERC_GAIN scanner (gappers)..."
                /\ pc[j] = "p3_wait" =>
                        /\ r.body.status = "running" /\ r.body.progress = 70
                        /\ r.body.message = "Getting short data"
                        /\ Count(r.body, "Phase 3: Getting short data") = 1
                /\ pc[j] = "p4" =>
                        /\ r.body.status = "running" /\ r.body.progress = 90
                        /\ r.body.message = "Fetching Reddit sentiment..."
                        /\ Count(r.body, "Phase 4: Getting Reddit sentiment") = 1

\* a start request ran cleanup_old_jobs while the first job, older than the
\* retention window, was in Phase 4
C32_Witness ==
    /\ resp.op = "start" /\ resp.job = 2
    /\ pc[1] = "p4" /\ cutoff >= 1
    /\ jobs[1].progress = 90

\* C33: when a job has ended, completed or failed, every gateway connection
\* it opened has been disconnected.
C33_ConnectionsReleased ==
    \A j \in JobIds :
        pc[j] = "done" => \A c \in conns : c.job # j

IsPrefix(old, new) ==
    /\ Len(old) <= Len(new)
    /\ \A i \in 1..Len(old) : new[i] = old[i]

RunningJobs == {j \in PoolJobs : pool[j].status = "running"}

\* C35: at any time at most 5 jobs are in state running; a job started
\* while 5 runs are in progress is not running before one of them ended.
C35_AtMostFiveRunning == Cardinality(RunningJobs) <= MaxWorkers

\* C36: sentiment and news enrichment touch only the first 5 survivors: a
\* stock at position 6 or later keeps its sentiment fields and its news and
\* catalyst fields as they were, and no sentiment or news request carries
\* its symbol.
C36_OnlyFirstFive ==
    pure.op \in {"sentiment", "news"} =>
        \A i \in 1..Len(pure.stocks) :
            i > TopN =>
                /\ pure.out[i] = pure.stocks[i]
                /\ pure.out[i].reddit_mentions = Absent
                /\ pure.out[i].reddit_sentiment_label = "None"
                /\ pure.out[i].news = "None" /\ pure.out[i].catalyst = "None"
                /\ \A k \in 1..Len(pure.requests) :
                        pure.requests[k] # pure.stocks[i].symbol

\* seven survivors went through both phases with both providers answering:
\* the fifth has sentiment and news, ten requests were issued
C36_Witness ==
    /\ pure.op = "news" /\ Len(pure.stocks) = 7
    /\ env = [sentiment |-> "posts", news |-> "articles"]
    /\ pure.out[5].reddit_sentiment_label = "BULLISH"
    /\ pure.out[5].catalyst = "EARNINGS"
    /\ Len(pure.requests) = 10

Called(scan) == \E k \in 1..Len(pure.calls) : pure.calls[k] = scan

\* C37: in non-test mode screen_pre_market runs the fallback scan if and
\* only if the primary scan returned no candidates, and it returns the empty
\* result (total_scanned 0, total_returned 0, nothing enriched) only when
\* both scans returned nothing.
C37_FallbackIffPrimaryEmpty ==
    /\ (pure.op = "screen" /\ pure.step = "scanned") => pure.calls = <<"HOT_BY_VOLUME">>
    /\ (pure.op = "screen" /\ pure.step = "rescanned") =>
            /\ pure.primary = <<>>
            /\ pure.calls = <<"HOT_BY_VOLUME", "MOST_ACTIVE">>
    /\ pure.op = "screened" =>
            /\ Called("HOT_BY_VOLUME")
            /\ Called("MOST_ACTIVE") <=> pure.primary = <<>>
            /\ (pure.result.total_scanned = 0 \/ pure.processed = 0)
                    => (pure.primary = <<>> /\ pure.fallback = <<>>)
            /\ (pure.primary = <<>> /\ pure.fallback = <<>>) =>
                    pure.result = [stocks |-> <<>>, total_scanned |-> 0,
                                   total_returned |-> 0]

\* both scans returned nothing and the empty result was returned
C37_Witness ==
    /\ pure.op = "screened"
    /\ pure.calls = <<"HOT_BY_VOLUME", "MOST_ACTIVE">>
    /\ pure.primary = <<>> /\ pure.fallback = <<>>
    /\ pure.result.total_scanned = 0 /\ pure.processed = 0

\* C38: in every stored job record, error is set only if the status is
\* failed, stocks is set only if the status is completed, and completed_at is
\* not set while the status is queued or running.
C38_RecordConsistent ==
    \A j \in DOMAIN jobs :
        /\ jobs[j].error # "None" => jobs[j].status = "failed"
        /\ jobs[j].stocks # "None" => jobs[j].status = "completed"
        /\ jobs[j].status \in {"queued", "running"} => jobs[j].completed_at = "None"

\* one job failed with its traceback, the other completed with its stocks
C38_Witness ==
    \E j, k \in DOMAIN jobs :
        /\ jobs[j].status = "failed" /\ jobs[j].error = "traceback"
        /\ jobs[j].completed_at = "now"
        /\ jobs[k].status = "completed" /\ jobs[k].stocks # "None"

\* the run has called scanner.connect() and has not returned
Executing(r) == runs[r].pc \in {"scanning", "saving", "raised"}

\* C39: two run_simple_screening runs that overlap in time never connect to
\* the gateway with the same client ID.
C39_DistinctClientIds ==
    \A r, o \in Runs :
        (r # o /\ Executing(r) /\ Executing(o)) => runs[r].client_id # runs[o].client_id

\* C40: screening_status reports running = TRUE whenever a
\* run_simple_screening call is in progress; no run that ends clears the
\* flag or overwrites step and progress while another run goes on.
C40_RunningWhileAnyRuns ==
    (\E r \in Runs : runs[r].pc \notin {"none", "returned"}) =>
        screening_status.running = TRUE

====
